---- MODULE Spec2Model ----
(***************************************************************************)
(* Model of the backup orchestrator: the per-folder file index (table      *)
(* all_files), the upload syncer, the folder uploader with its coalescing  *)
(* window, the global uploader, the index refresh against the sync daemon, *)
(* the cloud reconciler and the supervisor's worker table.                 *)
(*                                                                         *)
(* A path is a sequence of one-character strings, so that prefix tests and *)
(* pattern matches are computed on it as the code computes them.  The      *)
(* token "_files" stands for that literal run of characters.               *)
(***************************************************************************)
EXTENDS Integers, Sequences, FiniteSets, TLC

VARIABLES
    index,           \* table all_files: sequence of rows in rowid order
    now,             \* the wall clock (datetime.now())
    ignores,         \* the sync daemon's ignore list of the folder
    cloud_only_defaults, \* FolderConfig.cloud_only_defaults: the rules
    syncPc,          \* sync_from_cloud: "idle", or "refreshed" after its line 207
    fuQueue,         \* FolderUploaderQueue: messages <<files, action>>
    fuPc,            \* FolderUploader.listen: which queue.get it is blocked in
    collect_action,  \* FolderUploader.listen local
    collect_files,   \* FolderUploader.listen local
    uploaderQueue,   \* UploaderQueue of the global uploader
    performed,       \* history: the perform_action calls made so far
    fed,             \* history: the messages put on fuQueue by the test feeder
    erased,          \* history: the paths whose rows the last refresh erased
    seenMod,         \* history: latest modTime observed per path
    softDeleted,     \* history: paths whose deleted event was processed
    procs,           \* supervisor: the Process objects ever created
    supTable,        \* supervisor's worker-handle table (dict processes)
    schedTable,      \* scheduler's copy of the worker-handle table
    restartRuns,     \* supervisor: len(runs) of the restart's retry_on_error, 0 when idle
    restartWorker,   \* supervisor: the worker the restart command names
    restartCmd,      \* history: the last restart command and its reply
    schedCheckExit,  \* scheduler: exit code of its last check_processes child
    tasks,           \* scheduler: the TimedTask objects of TASKS
    schedPc,         \* scheduler: "loop", or "raised" once start_main_loop raised
    lastPick,        \* history: what the last pass of the scheduler loop did
    retry,           \* main's retry_on_error around the message server
    listener,        \* the Syncthing change listener, its file and its queues
    ignoreCalls,     \* history: the last calls of extend_ignores
    sameFileCall,    \* the last call of is_same_file and its result
    folderRun,       \* a run of do_for_all_folders
    archiveRun,      \* a run of sync_with_archive
    listenCall,      \* history: the last batch of UploadSyncer.listen
    purgeRun,        \* a run of FolderUploader.delete_folders
    uploadRun,       \* the global uploader's loop and its retry_on_error
    modifiers        \* the processes inside modify_ignores

vars == <<index, now, ignores, cloud_only_defaults, syncPc, fuQueue, fuPc,
          collect_action, collect_files, uploaderQueue, performed, fed,
          erased, seenMod, softDeleted, procs, supTable, schedTable,
          restartRuns, restartWorker, restartCmd, schedCheckExit, tasks, schedPc,
          lastPick, retry, listener, ignoreCalls, sameFileCall,
          folderRun, archiveRun, listenCall, purgeRun, uploadRun,
          modifiers>>

envVars == <<now, ignores, cloud_only_defaults, syncPc>>
ghostVars == <<erased, seenMod, softDeleted>>
indexVars == <<index, envVars, ghostVars>>
fuVars == <<fuQueue, fuPc, collect_action, collect_files, uploaderQueue>>
supVars == <<procs, supTable, schedTable, restartRuns, restartWorker, restartCmd,
            schedCheckExit>>
histVars == <<performed, fed>>
schedVars == <<tasks, schedPc, lastPick>>
otherVars == <<retry, listener>>
callVars == <<ignoreCalls, sameFileCall, folderRun, archiveRun, listenCall,
              purgeRun, uploadRun, modifiers>>
laterVars == <<purgeRun, uploadRun, modifiers>>
earlierVars == <<ignoreCalls, sameFileCall, folderRun, archiveRun, listenCall>>
auxVars == <<schedVars, otherVars, callVars>>

\* Python's None: in a numeric column or handle, and as an action name.
None == -1
NoAction == "None"

(***************************************************************************)
(* Bounds of the exploration.                                              *)
(***************************************************************************)
MaxTime == 1
MaxRows == 2
MaxQueue == 2
MaxFed == 4
MaxProcs == 4

(***************************************************************************)
(* Generic helpers.                                                        *)
(***************************************************************************)
Range(s) == {s[i] : i \in DOMAIN s}

RECURSIVE SelectSeqIdx(_, _, _)
SelectSeqIdx(s, keep, i) ==
    IF i > Len(s) THEN <<>>
    ELSE (IF i \in keep THEN <<s[i]>> ELSE <<>>) \o SelectSeqIdx(s, keep, i + 1)

IsPrefix(p, s) == Len(p) <= Len(s) /\ SubSeq(s, 1, Len(p)) = p

(***************************************************************************)
(* The file index: a row of table all_files (config.py, class AllFiles).   *)
(* The primary key id is the position in the sequence; path is not unique. *)
(***************************************************************************)
Row(path, size, hash, modified, uploaded, cloud_only) ==
    [path |-> path, size |-> size, hash |-> hash, modified |-> modified,
     uploaded |-> uploaded, cloud_only |-> cloud_only]

RowsOf(idx, p) == {i \in DOMAIN idx : idx[i].path = p}

(***************************************************************************)
(* Times are microseconds.  The clock of the index specifications advances *)
(* in steps of ClockStep, so that two different instants of the model are  *)
(* never within the 10 microseconds that is_same_file tolerates.           *)
(***************************************************************************)
TenMicroseconds == 10
ClockStep == 10

TimesUpTo(t) == {k * ClockStep : k \in 0..(t \div ClockStep)}

Max(a, b) == IF a >= b THEN a ELSE b

Abs(a) == IF a >= 0 THEN a ELSE 0 - a

\* The paths of the folder of the index specifications: d/j and d/x.
PJ == <<"d", "/", "j">>
PX == <<"d", "/", "x">>
Paths == {PJ, PX}

\* The order in which a set of paths is listed in a file or a reply.
PathOrder == <<PJ, PX>>

SetToSeq(S) == SelectSeq(PathOrder, LAMBDA p : p \in S)

\* What the storage tool can say about a file's content.
Hashes == {1}
Sizes == {1}

\* get_file_details (util.py): (hash, mtime, size) of a local file; the hash
\* is default_hashsum (None) when the hashsum call fails.  NoFile stands for
\* the FileNotFoundError of stat().
NoFile == [hash |-> None, modified |-> None, size |-> None]

FileDetails(t) ==
    [hash : Hashes \cup {None}, modified : TimesUpTo(t), size : Sizes]

get_file_details(t) == FileDetails(t) \cup {NoFile}

\* What the specifications let get_file_details find: the hashsum call
\* succeeds on a file that is there.
LocalFiles(t) == {d \in get_file_details(t) : d = NoFile \/ d.hash # None}

\* Mutation of is_same_file_pair: an absent modTime never compares equal.
SameFilePairAbsentDiffers(date1, size1, date2, size2) ==
    size1 = size2 /\ date1 # None /\ date2 # None
       /\ Abs(date1 - date2) < TenMicroseconds

\* util.is_same_file, lines 294-313: the branch for a (modTime, size) pair
\* against an index entry.
is_same_file_pair(date1, size1, date2, size2) ==
    IF size1 # size2 THEN FALSE
    ELSE IF date1 = None \/ date2 = None THEN date1 = date2
    ELSE Abs(date1 - date2) < TenMicroseconds

(***************************************************************************)
(* Folder uploader (uploader.py).                                          *)
(***************************************************************************)
UPLOAD_ACTIONS == {"copy", "move"}

UploaderActions == {"copy", "move", "delete_files", "delete_folders"}

\* FolderUploader.check_file: "_files/" in file_str or file_str.endswith("_files")
check_file(file) ==
    ~ (\/ \E i \in 1..(Len(file) - 1) : file[i] = "_files" /\ file[i + 1] = "/"
       \/ (Len(file) > 0 /\ file[Len(file)] = "_files"))

\* AllFiles.is_relative_to: self.path.startswith(path)
is_relative_to(rowPath, path) == IsPrefix(path, rowPath)

\* FolderUploader.upload: the effect on the global queue and on the index.
\* st is [index, uq]; the result is the state after the commit.
upload(st, files, action) ==
    LET filtered_files == SelectSeq(files, check_file)
    IN  [index |-> [i \in DOMAIN st.index |->
                       IF st.index[i].path \in Range(filtered_files)
                       THEN [st.index[i] EXCEPT !.uploaded = st.index[i].modified]
                       ELSE st.index[i]],
         uq |-> Append(st.uq, <<filtered_files, action>>)]

\* Mutation of delete_folder_purges: the cloud-only rows are not looked at.
PurgesAlways(idx, path) == TRUE

\* FolderUploader.delete_folder: TRUE when the purge is invoked for path.
delete_folder_purges(idx, path) ==
    ~ \E i \in DOMAIN idx : is_relative_to(idx[i].path, path) /\ idx[i].cloud_only

\* FolderUploader.perform_action: deletions run the storage tool and leave
\* the index alone (a failure is caught and logged); copy / move go to upload.
perform_action(st, action, files) ==
    CASE action = "delete_files" -> st
      [] action = "delete_folders" -> st
      [] action \in UPLOAD_ACTIONS -> upload(st, files, action)
      [] OTHER -> st

RECURSIVE perform_all(_, _)
perform_all(st, calls) ==
    IF calls = <<>> THEN st
    ELSE perform_all(perform_action(st, calls[1][1], calls[1][2]), Tail(calls))

\* FolderUploader.listen, lines 123-127: the flush of the pending collection.
FlushCalls == IF collect_action # NoAction THEN << <<collect_action, collect_files>> >>
              ELSE <<>>

\* FolderUploader.listen, lines 131-138: what is done with a fresh message.
DispatchCalls(files, action) ==
    IF action \in UPLOAD_ACTIONS THEN <<>> ELSE << <<action, files>> >>

\* Mutation of TimedGetCalls: the pending collection is not flushed when a
\* message with another action arrives.
TimedGetCallsNoFlush(msg) ==
    IF msg[2] = collect_action THEN <<>>
    ELSE DispatchCalls(msg[1], msg[2])

\* The perform_action calls of one pass of the loop that got msg from the
\* timed get (line 117), in call order.
TimedGetCalls(msg) ==
    IF msg[2] = collect_action THEN <<>>
    ELSE FlushCalls \o DispatchCalls(msg[1], msg[2])

ApplyCalls(calls) ==
    LET st == perform_all([index |-> index, uq |-> uploaderQueue], calls)
    IN  /\ Len(st.uq) <= MaxQueue + MaxFed
        /\ index' = st.index
        /\ uploaderQueue' = st.uq

Dispatch(files, action) ==
    IF action \in UPLOAD_ACTIONS
    THEN /\ collect_action' = action
         /\ collect_files' = files
    ELSE /\ collect_action' = NoAction
         /\ collect_files' = <<>>

\* One pass of the loop through the timed get: a message was waiting.
FUTimedGet ==
    /\ fuPc = "timed_get"
    /\ fuQueue # <<>>
    /\ LET msg == Head(fuQueue)
       IN  /\ fuQueue' = Tail(fuQueue)
           /\ IF msg[2] = collect_action
              THEN /\ collect_files' = collect_files \o msg[1]
                   /\ UNCHANGED <<collect_action, index, uploaderQueue>>
              ELSE /\ ApplyCalls(TimedGetCalls(msg))
                   /\ Dispatch(msg[1], msg[2])
    /\ UNCHANGED fuPc

\* queue.get(timeout=10) raised Empty: flush, then block in queue.get().
FUTimeout ==
    /\ fuPc = "timed_get"
    /\ fuQueue = <<>>
    /\ ApplyCalls(FlushCalls)
    /\ fuPc' = "blocking_get"
    /\ UNCHANGED <<fuQueue, collect_action, collect_files>>

\* The blocking queue.get() of line 129 returned a message.
FUBlockingGet ==
    /\ fuPc = "blocking_get"
    /\ fuQueue # <<>>
    /\ LET msg == Head(fuQueue)
       IN  /\ fuQueue' = Tail(fuQueue)
           /\ ApplyCalls(DispatchCalls(msg[1], msg[2]))
           /\ Dispatch(msg[1], msg[2])
    /\ fuPc' = "timed_get"

(***************************************************************************)
(* Global uploader (uploader.py, class Uploader): takes one item and runs  *)
(* the storage tool on it; the outcome does not touch the index.           *)
(***************************************************************************)
UploaderListen ==
    /\ uploaderQueue # <<>>
    /\ uploaderQueue' = Tail(uploaderQueue)
    /\ UNCHANGED <<fuQueue, fuPc, collect_action, collect_files, performed, fed>>
    /\ UNCHANGED indexVars
    /\ UNCHANGED <<supVars, auxVars>>

(***************************************************************************)
(* Specification SpecFU: the folder uploader fed with single-path          *)
(* messages; the k-th message carries the k-th path of FeedPaths.          *)
(* fed records what the listener saw, in order: each message it took from  *)
(* the queue and each timeout of the timed get.                            *)
(***************************************************************************)
FeedPaths == << <<"A">>, <<"B">>, <<"C">>, <<"D">>, <<"E">>, <<"F">> >>

Timeout == <<"timeout">>

Messages(evs) == SelectSeq(evs, LAMBDA e : e # Timeout)

Feed ==
    /\ Len(Messages(fed)) + Len(fuQueue) < MaxFed
    /\ Len(Messages(fed)) + Len(fuQueue) < Len(FeedPaths)
    /\ \E action \in UploaderActions :
          fuQueue' = Append(fuQueue,
                            << <<FeedPaths[Len(Messages(fed)) + Len(fuQueue) + 1]>>,
                               action >>)
    /\ UNCHANGED <<fuPc, collect_action, collect_files, uploaderQueue,
                   performed, fed>>
    /\ UNCHANGED indexVars
    /\ UNCHANGED <<supVars, auxVars>>

FUTimedGetRec ==
    /\ FUTimedGet
    /\ performed' = performed \o TimedGetCalls(Head(fuQueue))
    /\ fed' = Append(fed, Head(fuQueue))
    /\ UNCHANGED <<envVars, ghostVars>>
    /\ UNCHANGED <<supVars, auxVars>>

FUTimeoutRec ==
    /\ FUTimeout
    /\ performed' = performed \o FlushCalls
    /\ fed' = Append(fed, Timeout)
    /\ UNCHANGED <<envVars, ghostVars>>
    /\ UNCHANGED <<supVars, auxVars>>

FUBlockingGetRec ==
    /\ FUBlockingGet
    /\ performed' = performed \o DispatchCalls(Head(fuQueue)[1], Head(fuQueue)[2])
    /\ fed' = Append(fed, Head(fuQueue))
    /\ UNCHANGED <<envVars, ghostVars>>
    /\ UNCHANGED <<supVars, auxVars>>

\* A TimedTask before start_main_loop has run: no process, retry_count 0.
NoTask == [next_time |-> 0, retry_count |-> 0, enabled |-> TRUE,
           process |-> "none", live |-> 0]

\* No pass of the scheduler loop has been made.
NoPick == [task |-> "none", kind |-> "none", at |-> 0,
           old |-> NoTask, after_exit |-> NoTask, new |-> NoTask]

\* The scheduler with an empty TASKS.
InitNoTasks ==
    /\ tasks = <<>>
    /\ schedPc = "loop"
    /\ lastPick = NoPick

\* retry_on_error has not been called: no run, nothing recorded.
InitNoRetry ==
    retry = [pc |-> "idle", runs |-> <<>>, failures |-> <<>>, failed |-> 0,
             config |-> [max_failures_per_hour |-> 0, max_failures_per_day |-> 0]]

\* No change listener, no queue registered.
InitNoListener ==
    listener = [pc |-> "none", events |-> 0, last_event |-> 0, file |-> 0,
                batch |-> {}, next_queue |-> 0, received |-> <<>>]

\* Nothing has been called.
InitNoIgnoreCalls == ignoreCalls = <<>>
InitNoSameFileCall == sameFileCall = <<>>
InitNoFolderRun == folderRun = <<>>
InitNoArchiveRun == archiveRun = <<>>
InitNoListenCall == listenCall = <<>>
InitNoPurgeRun == purgeRun = <<>>
InitNoUploadRun == uploadRun = <<>>
InitNoModifiers == modifiers = <<>>

InitNoCalls ==
    /\ InitNoIgnoreCalls
    /\ InitNoSameFileCall
    /\ InitNoFolderRun
    /\ InitNoArchiveRun
    /\ InitNoListenCall
    /\ InitNoPurgeRun
    /\ InitNoUploadRun
    /\ InitNoModifiers

\* The parts that a specification leaves out.
InitAux == InitNoTasks /\ InitNoRetry /\ InitNoListener /\ InitNoCalls

InitIndexState ==
    /\ index = <<>>
    /\ now = 0
    /\ ignores = {}
    /\ cloud_only_defaults = <<>>
    /\ syncPc = "idle"
    /\ erased = {}
    /\ seenMod = [q \in Paths |-> None]
    /\ softDeleted = {}

InitFolderUploader ==
    /\ fuQueue = <<>>
    /\ fuPc = "timed_get"
    /\ collect_action = NoAction
    /\ collect_files = <<>>
    /\ uploaderQueue = <<>>
    /\ performed = <<>>
    /\ fed = <<>>

InitNoWorkers ==
    /\ procs = <<>>
    /\ supTable = <<>>
    /\ schedTable = <<>>
    /\ restartRuns = 0
    /\ restartWorker = "uploader"
    /\ restartCmd = <<>>
    /\ schedCheckExit = None

InitCommon == InitIndexState /\ InitFolderUploader /\ InitNoWorkers /\ InitAux

InitFU == InitCommon

NextFU == Feed \/ FUTimedGetRec \/ FUTimeoutRec \/ FUBlockingGetRec

SpecFU == InitFU /\ [][NextFU]_vars

(***************************************************************************)
(* C3.  The folder uploader coalesces: what perform_action has been called *)
(* with equals the coalescing of what the listener saw (consecutive        *)
(* same-action copy / move messages merged in arrival order, a different   *)
(* action or a timeout flushing the pending collection first, a deletion   *)
(* performed at once), and copy[A], copy[B], delete_files[C], copy[D]      *)
(* followed by a quiet window gives copy([A,B]), delete_files([C]),        *)
(* copy([D]).                                                              *)
(***************************************************************************)
NoPending == [action |-> NoAction, files |-> <<>>]

RECURSIVE Coalesce(_)
Coalesce(evs) ==
    IF evs = <<>> THEN [calls |-> <<>>, pend |-> NoPending]
    ELSE LET prev == Coalesce(SubSeq(evs, 1, Len(evs) - 1))
             e == evs[Len(evs)]
             flushed == IF prev.pend.action = NoAction THEN prev.calls
                        ELSE Append(prev.calls, <<prev.pend.action, prev.pend.files>>)
         IN  IF e = Timeout THEN [calls |-> flushed, pend |-> NoPending]
             ELSE IF e[2] \in {"copy", "move"}
                  THEN IF prev.pend.action = e[2]
                       THEN [calls |-> prev.calls,
                             pend |-> [action |-> e[2], files |-> prev.pend.files \o e[1]]]
                       ELSE [calls |-> flushed,
                             pend |-> [action |-> e[2], files |-> e[1]]]
                  ELSE [calls |-> Append(flushed, <<e[2], e[1]>>), pend |-> NoPending]

ScenarioC3 == << << <<"A">> , "copy">>, << <<"B">>, "copy">>,
                 << <<"C">>, "delete_files">>, << <<"D">>, "copy">>, Timeout >>

ScenarioC3Calls == << <<"copy", <<"A", "B">> >>, <<"delete_files", <<"C">> >>,
                      <<"copy", <<"D">> >> >>

\* C3: the calls of perform_action are the coalescing of what was fed.
Thm_C3 ==
    /\ performed = Coalesce(fed).calls
    /\ fuPc = "timed_get" =>
          /\ collect_action = Coalesce(fed).pend.action
          /\ collect_action # NoAction => collect_files = Coalesce(fed).pend.files
    /\ fed = ScenarioC3 => performed = ScenarioC3Calls

Wit_C3 == fed = ScenarioC3 /\ performed = ScenarioC3Calls

(***************************************************************************)
(* Supervisor (manager.py): the worker-handle table (dict processes).      *)
(* procs[i] is the i-th Process object created: the worker it runs and its *)
(* state, "alive", "terminating" (terminate() was called, the process has  *)
(* not exited yet) or "dead".  A handle is an index into procs, or None    *)
(* when the key "process" is absent from the worker's spec.                *)
(***************************************************************************)
Workers == <<"uploader", "change_listener">>

WorkerNames == Range(Workers)

RestartMaxRetryCount == 12

is_alive(ps, h) == h # None /\ ps[h].st # "dead"

\* start_process, lines 431-433: a new Process is created, tracked and
\* started.  sup is [procs, table].
start_process(sup, w) ==
    [procs |-> Append(sup.procs, [name |-> w, st |-> "alive"]),
     table |-> [sup.table EXCEPT ![w] = Len(sup.procs) + 1]]

\* check_processes, lines 299-303: every worker whose process is missing or
\* not alive is started, in the order of the dict.
RECURSIVE check_processes(_, _)
check_processes(sup, k) ==
    IF k > Len(Workers) THEN sup
    ELSE check_processes(IF is_alive(sup.procs, sup.table[Workers[k]]) THEN sup
                         ELSE start_process(sup, Workers[k]),
                         k + 1)

SetSup(sup) ==
    /\ Len(sup.procs) <= MaxProcs
    /\ procs' = sup.procs
    /\ supTable' = sup.table

\* case ["start", process]: start_process raises ValueError when the tracked
\* process is alive, and the reply says so.
CmdStart ==
    /\ restartRuns = 0
    /\ \E w \in WorkerNames :
          /\ ~ is_alive(procs, supTable[w])
          /\ SetSup(start_process([procs |-> procs, table |-> supTable], w))
    /\ UNCHANGED <<schedTable, restartRuns, restartWorker, schedCheckExit, restartCmd>>
    /\ UNCHANGED <<indexVars, fuVars, histVars, auxVars>>

\* stop_process: terminate() on the tracked process when it is alive,
\* ValueError otherwise.
stop_process(w) ==
    /\ is_alive(procs, supTable[w])
    /\ procs' = [procs EXCEPT ![supTable[w]].st = "terminating"]

\* case ["stop", process]
CmdStop ==
    /\ restartRuns = 0
    /\ \E w \in WorkerNames : stop_process(w)
    /\ UNCHANGED <<supTable, schedTable, restartRuns, restartWorker, schedCheckExit, restartCmd>>
    /\ UNCHANGED <<indexVars, fuVars, histVars, auxVars>>

\* case ["restart", process]: stop_process, then retry_on_error(start_process)
\* is entered (runs.append(time()) before the first call).  When stop_process
\* raises ValueError (the tracked process is not alive) the reply says so
\* and the command returns (lines 223-227).
CmdRestart ==
    /\ restartRuns = 0
    /\ \E w \in WorkerNames :
          /\ restartWorker' = w
          /\ IF is_alive(procs, supTable[w])
             THEN /\ stop_process(w)
                  /\ restartRuns' = 1
                  /\ restartCmd' = <<[worker |-> w, was_alive |-> TRUE,
                                      handle |-> supTable[w],
                                      reply |-> "pending"]>>
             ELSE /\ restartCmd' = <<[worker |-> w, was_alive |-> FALSE,
                                      handle |-> supTable[w],
                                      reply |-> "could not be stopped"]>>
                  /\ UNCHANGED <<procs, restartRuns>>
    /\ UNCHANGED <<supTable, schedTable, schedCheckExit>>
    /\ UNCHANGED <<indexVars, fuVars, histVars, auxVars>>

\* One call of start_process inside retry_on_error: it succeeds when the old
\* process has exited; otherwise ValueError, sleep, runs.append, and the
\* error is re-raised once len(runs) > max_retry_count.
RestartAttempt ==
    /\ restartRuns > 0
    /\ IF is_alive(procs, supTable[restartWorker])
       THEN /\ restartRuns' = IF restartRuns + 1 > RestartMaxRetryCount THEN 0
                              ELSE restartRuns + 2
            /\ restartCmd' = IF restartRuns + 1 > RestartMaxRetryCount
                             THEN <<[restartCmd[1] EXCEPT
                                       !.reply = "could not be started"]>>
                             ELSE restartCmd
            /\ UNCHANGED <<procs, supTable>>
       ELSE /\ SetSup(start_process([procs |-> procs, table |-> supTable],
                                    restartWorker))
            /\ restartRuns' = 0
            /\ restartCmd' = <<[restartCmd[1] EXCEPT !.reply = "OK"]>>
    /\ UNCHANGED <<schedTable, restartWorker, schedCheckExit>>
    /\ UNCHANGED <<indexVars, fuVars, histVars, auxVars>>

\* case ["run", "check_processes"]: check_processes(processes,
\* popen_processes) runs in the supervisor on the supervisor's table.
CmdCheckProcesses ==
    /\ restartRuns = 0
    /\ SetSup(check_processes([procs |-> procs, table |-> supTable], 1))
    /\ UNCHANGED <<schedTable, restartRuns, restartWorker, schedCheckExit, restartCmd>>
    /\ UNCHANGED <<indexVars, fuVars, histVars, auxVars>>

\* Mutation of SchedCheckProcesses: the child runs the body of check_processes
\* on its copy of the table and starts the workers whose copied handle is
\* not alive.
SchedCheckProcessesOnCopy ==
    /\ LET sup == check_processes([procs |-> procs, table |-> schedTable], 1)
       IN  /\ Len(sup.procs) <= MaxProcs
           /\ procs' = sup.procs
    /\ schedCheckExit' = 0
    /\ UNCHANGED <<supTable, schedTable, restartRuns, restartWorker, restartCmd>>
    /\ UNCHANGED <<indexVars, fuVars, histVars, auxVars>>

\* The scheduler's task: Process(target=check_processes, args=[processes]).
\* check_processes takes two positional parameters, so the call in the child
\* raises TypeError before its body runs and the child exits with code 1.
SchedCheckProcesses ==
    /\ schedCheckExit' = 1
    /\ UNCHANGED <<procs, supTable, schedTable, restartRuns, restartWorker, restartCmd>>
    /\ UNCHANGED <<indexVars, fuVars, histVars, auxVars>>

\* A worker process exits: after terminate(), or on its own.
ProcExit ==
    /\ \E i \in DOMAIN procs :
          /\ procs[i].st # "dead"
          /\ procs' = [procs EXCEPT ![i].st = "dead"]
    /\ UNCHANGED <<supTable, schedTable, restartRuns, restartWorker, schedCheckExit, restartCmd>>
    /\ UNCHANGED <<indexVars, fuVars, histVars, auxVars>>

\* After main(): the uploader (line 470) and the change listener (line 498)
\* were started, then the scheduler was forked with a copy of the table
\* (line 500).
InitSup ==
    /\ InitIndexState
    /\ InitFolderUploader
    /\ procs = << [name |-> "uploader", st |-> "alive"],
                  [name |-> "change_listener", st |-> "alive"] >>
    /\ supTable = [w \in WorkerNames |-> IF w = "uploader" THEN 1 ELSE 2]
    /\ schedTable = [w \in WorkerNames |-> IF w = "uploader" THEN 1 ELSE 2]
    /\ restartRuns = 0
    /\ restartWorker = "uploader"
    /\ restartCmd = <<>>
    /\ schedCheckExit = None
    /\ InitAux

NextSup ==
    \/ CmdStart \/ CmdStop \/ CmdRestart \/ RestartAttempt
    \/ CmdCheckProcesses \/ SchedCheckProcesses \/ ProcExit

SpecSup == InitSup /\ [][NextSup]_vars

(***************************************************************************)
(* C2.  At most one global-uploader process is alive at any time.          *)
(***************************************************************************)
Thm_C2 ==
    Cardinality({i \in DOMAIN procs :
                    procs[i].name = "uploader" /\ procs[i].st # "dead"}) <= 1

\* A restart has replaced the first uploader, and the scheduler's check ran
\* with its stale copy of the table.
Wit_C2 ==
    /\ Len(procs) >= 3
    /\ procs[1].st = "dead"
    /\ supTable["uploader"] = 3
    /\ procs[3] = [name |-> "uploader", st |-> "alive"]
    /\ schedTable["uploader"] = 1
    /\ schedCheckExit = 1

(***************************************************************************)
(* Upload syncer (sync.py, UploadSyncer.listen).                           *)
(* An event is [type, folder, action, path, ftype].                        *)
(***************************************************************************)
FolderId == "this"

Event(type, folder, action, path, ftype) ==
    [type |-> type, folder |-> folder, action |-> action, path |-> path,
     ftype |-> ftype]

\* The match statement of lines 64-88: the action list an event goes to.
EventAction(ev) ==
    IF ev.type \notin {"RemoteChangeDetected", "LocalChangeDetected"} THEN "other"
    ELSE IF ev.action = "deleted" /\ ev.ftype = "file" THEN "delete_files"
    ELSE IF ev.action = "deleted" /\ ev.ftype = "dir" THEN "delete_folders"
    ELSE IF ev.action = "modified" THEN "copy"
    ELSE "other"

RECURSIVE PathsFor(_, _)
PathsFor(changes, action) ==
    IF changes = <<>> THEN <<>>
    ELSE (IF changes[1].folder = FolderId /\ EventAction(changes[1]) = action
          THEN <<changes[1].path>> ELSE <<>>)
         \o PathsFor(Tail(changes), action)

\* list.remove(x): the first occurrence goes (ValueError when there is none).
RECURSIVE RemoveFirst(_, _)
RemoveFirst(list, x) ==
    IF list = <<>> THEN <<>>
    ELSE IF list[1] = x THEN Tail(list)
    ELSE <<list[1]>> \o RemoveFirst(Tail(list), x)

\* Lines 90-102: every row of a path to copy with modified None and uploaded
\* set is refreshed from disk, and its path is removed from the copy list.
\* st is [ok, copy, index]; ok turns FALSE when list.remove or stat raises.
RECURSIVE RefreshDownloaded(_, _, _)
RefreshDownloaded(st, fs, i) ==
    IF i > Len(st.index) \/ ~ st.ok THEN st
    ELSE LET r == st.index[i]
         IN  IF r.path \in Range(st.copy0) /\ r.modified = None /\ r.uploaded # None
             THEN IF r.path \notin Range(st.copy) \/ fs[r.path] = NoFile
                  THEN [st EXCEPT !.ok = FALSE]
                  ELSE RefreshDownloaded(
                         [st EXCEPT !.copy = RemoveFirst(st.copy, r.path),
                                    !.index[i].hash = fs[r.path].hash,
                                    !.index[i].modified = fs[r.path].modified,
                                    !.index[i].size = fs[r.path].size],
                         fs, i + 1)
             ELSE RefreshDownloaded(st, fs, i + 1)

\* AllFiles.is_relative_to_any: or_ of path.startswith(p) over the folders.
is_relative_to_any(rowPath, paths) ==
    \E k \in DOMAIN paths : IsPrefix(paths[k], rowPath)

\* Lines 108-114: the soft delete.
ClearBytes(idx, delete_files, delete_folders) ==
    [i \in DOMAIN idx |->
        IF idx[i].path \in Range(delete_files)
           \/ is_relative_to_any(idx[i].path, delete_folders)
        THEN [idx[i] EXCEPT !.size = None, !.hash = None, !.modified = None]
        ELSE idx[i]]

DeleteRows(idx, paths) ==
    SelectSeqIdx(idx, {i \in DOMAIN idx : idx[i].path \notin paths}, 1)

\* Lines 119-122: one fresh row per entry of the copy list.
RECURSIVE FreshRows(_, _)
FreshRows(copy, fs) ==
    IF copy = <<>> THEN <<>>
    ELSE <<Row(copy[1], fs[copy[1]].size, fs[copy[1]].hash,
               fs[copy[1]].modified, None, FALSE)>>
         \o FreshRows(Tail(copy), fs)

\* Lines 126-130: the messages put on the folder's upload queue.
Emitted(copy, delete_files, delete_folders) ==
    (IF copy # <<>> THEN << <<copy, "copy">> >> ELSE <<>>)
    \o (IF delete_files # <<>> THEN << <<delete_files, "delete_files">> >> ELSE <<>>)
    \o (IF delete_folders # <<>> THEN << <<delete_folders, "delete_folders">> >> ELSE <<>>)

\* One pass of the loop on the batch changes; fs is what get_file_details
\* finds for the paths to copy.  The result is [index, emitted, crashed].
listen(idx, changes, fs) ==
    LET copy0 == PathsFor(changes, "copy")
        delete_files == PathsFor(changes, "delete_files")
        delete_folders == PathsFor(changes, "delete_folders")
        s1 == RefreshDownloaded([ok |-> TRUE, copy0 |-> copy0, copy |-> copy0,
                                 index |-> idx], fs, 1)
        copy == s1.copy
        cleared == IF delete_files # <<>> \/ delete_folders # <<>>
                   THEN ClearBytes(s1.index, delete_files, delete_folders)
                   ELSE s1.index
        written == IF copy # <<>>
                   THEN DeleteRows(cleared, Range(copy)) \o FreshRows(copy, fs)
                   ELSE cleared
    IN  IF ~ s1.ok
        THEN [index |-> idx, emitted |-> <<>>, crashed |-> TRUE]
        ELSE IF copy = <<>> /\ delete_files = <<>> /\ delete_folders = <<>>
        THEN [index |-> s1.index, emitted |-> <<>>, crashed |-> FALSE]
        ELSE IF \E k \in DOMAIN copy : fs[copy[k]] = NoFile
        THEN [index |-> s1.index, emitted |-> <<>>, crashed |-> TRUE]
        ELSE [index |-> written,
              emitted |-> Emitted(copy, delete_files, delete_folders),
              crashed |-> FALSE]

\* The upload syncer takes the batch changes from its queue and processes
\* it; fs is what get_file_details finds for the paths to copy.
UploadSyncerListen(changes, fs, cap) ==
    LET res == listen(index, changes, fs)
    IN  /\ Len(res.index) <= MaxRows
        /\ Len(fuQueue) + Len(res.emitted) <= cap
        /\ index' = res.index
        /\ fuQueue' = fuQueue \o res.emitted

(***************************************************************************)
(* Index refresh (archiver.py, validate_files and update_all_files).       *)
(* The daemon's answer for a path is [kind, modTime, size, dbfile]: kind   *)
(* is how db/browse lists it ("file", "badtime" for a modTime the regular  *)
(* expression of line 85 rejects, "other" for an unknown type, "absent"),  *)
(* dbfile is what db/file says of it.                                      *)
(***************************************************************************)
DbFileAnswers == {"nosuch", "deleted", "ignored", "present"}

Listing(kind, modTime, size, dbfile) ==
    [kind |-> kind, modTime |-> modTime, size |-> size, dbfile |-> dbfile]

Listings(t) ==
    {Listing("file", mt, sz, "present") : mt \in TimesUpTo(t), sz \in Sizes}
    \cup {Listing("badtime", None, 1, "present"),
          Listing("other", None, 1, "present")}
    \cup {Listing("absent", None, None, a) : a \in DbFileAnswers}

\* Line 128: the dict comprehension keeps the last row of a path.
known_files(idx) ==
    LET known == {idx[i].path : i \in DOMAIN idx}
        last(q) == CHOOSE i \in RowsOf(idx, q) : \A k \in RowsOf(idx, q) : k <= i
    IN  [q \in known |-> [hash |-> idx[last(q)].hash,
                          modified |-> idx[last(q)].modified,
                          size |-> idx[last(q)].size]]

\* validate_files, lines 81-83: a listed path the index does not know.
added(known, st) ==
    {q \in Paths : st[q].kind \in {"file", "badtime"} /\ q \notin DOMAIN known}

\* validate_files, lines 99-102: a listed file that differs from its row.
changed(known, st) ==
    {q \in DOMAIN known :
        /\ st[q].kind = "file"
        /\ ~ is_same_file_pair(st[q].modTime, st[q].size,
                               known[q].modified, known[q].size)}

\* Lines 134, 91 and 105: the known paths the listing does not show.
removed(known, st) ==
    {q \in DOMAIN known : st[q].kind \in {"other", "absent"}}

\* Mutation of paths_to_delete: every removed path is erased, whatever
\* db/file says of it.
PathsToDeleteUnconfirmed(known, st) == removed(known, st)

\* Lines 161-166: the removed paths whose rows are erased.
paths_to_delete(known, st) ==
    {q \in removed(known, st) : st[q].dbfile \in {"nosuch", "deleted", "ignored"}}

\* Mutation of exists: the added and changed paths are upserted whether or
\* not they are in the local folder.
ExistsUnchecked(known, st, fs) == added(known, st) \cup changed(known, st)

\* Lines 151-152: the added or changed paths that exist in the local folder.
exists(known, st, fs) ==
    {q \in added(known, st) \cup changed(known, st) : fs[q] # NoFile}

RECURSIVE RowsFor(_, _)
RowsFor(paths, fs) ==
    IF paths = <<>> THEN <<>>
    ELSE <<Row(paths[1], fs[paths[1]].size, fs[paths[1]].hash,
               fs[paths[1]].modified, None, FALSE)>>
         \o RowsFor(Tail(paths), fs)

\* update_all_files: the index it leaves and the dict it returns.
update_all_files(idx, st, fs, return_directories) ==
    LET known == known_files(idx)
        ex == exists(known, st, fs)
        del == paths_to_delete(known, st)
        keys == (DOMAIN known \cup ex) \ del
        all == [q \in keys |-> IF q \in ex THEN fs[q] ELSE known[q]]
        kept == IF return_directories THEN keys
                ELSE {q \in keys : all[q].hash # None}
    IN  [index |-> DeleteRows(idx, del)
                   \o RowsFor(SelectSeq(PathOrder, LAMBDA q : q \in ex), fs),
         files |-> [q \in kept |-> all[q]],
         added |-> added(known, st), changed |-> changed(known, st),
         removed |-> removed(known, st), deleted |-> del, exists |-> ex]

\* discard_ignores (util.py): the patterns "/path" leave the ignore list.
discard_ignores(ign, files) ==
    ign \ {IF q # <<>> /\ q[1] = "/" THEN q ELSE <<"/">> \o q : q \in files}

\* What a refresh can read about path q: the daemon's answers and the
\* local file.  Answers the run never asks for are left at a fixed value: the
\* modTime of a path it does not know (line 83 skips the parse), the local
\* file of a path neither added nor changed, db/file of a path not removed.
PathInputs(known, q, t) ==
    IF q \notin DOMAIN known
    THEN {[st |-> Listing("file", 0, 1, "present"), fs |-> d] : d \in LocalFiles(t)}
         \cup {[st |-> Listing("other", None, 1, "present"), fs |-> NoFile]}
         \cup {[st |-> Listing("absent", None, None, "present"), fs |-> NoFile]}
    ELSE {[st |-> l, fs |-> d] :
             l \in {m \in Listings(t) : m.kind = "file"
                       /\ ~ is_same_file_pair(m.modTime, m.size,
                                              known[q].modified, known[q].size)},
             d \in LocalFiles(t)}
         \cup {[st |-> l, fs |-> NoFile] :
                 l \in {m \in Listings(t) :
                          \/ m.kind \in {"badtime", "other", "absent"}
                          \/ /\ m.kind = "file"
                             /\ is_same_file_pair(m.modTime, m.size,
                                                  known[q].modified, known[q].size)}}

RefreshInputs(idx, t) ==
    {[st |-> (PJ :> a.st) @@ (PX :> b.st), fs |-> (PJ :> a.fs) @@ (PX :> b.fs)] :
        a \in PathInputs(known_files(idx), PJ, t),
        b \in PathInputs(known_files(idx), PX, t)}

(***************************************************************************)
(* Regular expressions of the cloud-only rules.  A pattern is a sequence   *)
(* of tokens: a literal character, any run of characters (dot star), a     *)
(* named group v capturing any run of characters, and, in a criterion      *)
(* template, the replacement field {v}.                                    *)
(***************************************************************************)
Lit(c) == [k |-> "lit", v |-> c]
AnyRun == [k |-> "any", v |-> ""]
Group(name) == [k |-> "group", v |-> name]
Ref(name) == [k |-> "ref", v |-> name]

NoGroups == [n \in {} |-> <<>>]
NoMatch == [ok |-> FALSE, groups |-> NoGroups]

MaxOf(S) == CHOOSE n \in S : \A k \in S : k <= n

\* re.fullmatch(pattern, string): greedy with backtracking; the result is
\* whether it matched and the groupdict of the match.
RECURSIVE fullmatch(_, _)
fullmatch(toks, str) ==
    IF toks = <<>> THEN [ok |-> str = <<>>, groups |-> NoGroups]
    ELSE LET t == Head(toks)
             rest == Tail(toks)
             suffix(n) == SubSeq(str, n + 1, Len(str))
         IN  IF t.k = "lit"
             THEN IF str # <<>> /\ str[1] = t.v
                  THEN fullmatch(rest, Tail(str)) ELSE NoMatch
             ELSE IF t.k \in {"any", "group"}
             THEN LET good == {n \in 0..Len(str) : fullmatch(rest, suffix(n)).ok}
                  IN  IF good = {} THEN NoMatch
                      ELSE LET r == fullmatch(rest, suffix(MaxOf(good)))
                           IN  [ok |-> TRUE,
                                groups |->
                                   IF t.k = "group"
                                   THEN (t.v :> SubSeq(str, 1, MaxOf(good))) @@ r.groups
                                   ELSE r.groups]
             ELSE NoMatch

\* re.escape(v): every character of v stands for itself.
escape(v) == [i \in DOMAIN v |-> Lit(v[i])]

\* criterion.format(**groups): each replacement field becomes the escaped
\* text its group captured.
RECURSIVE format(_, _)
format(template, groups) ==
    IF template = <<>> THEN <<>>
    ELSE (IF Head(template).k = "ref"
          THEN escape(groups[Head(template).v])
          ELSE <<Head(template)>>)
         \o format(Tail(template), groups)

\* Lines 145-173.  The criteria are joined to "^((c1)|(c2))$", which matches
\* a path exactly when one of them matches the whole path.
should_be_cloud_only(file, rule, criterions, files, idx) ==
    LET m == fullmatch(rule, file)
        criterion(f) == \E c \in DOMAIN criterions :
                            fullmatch(format(criterions[c], m.groups), f).ok
    IN  /\ m.ok
        /\ \/ criterions = <<>>
           \/ \E download_file \in files : criterion(download_file)
           \/ \E i \in DOMAIN idx : criterion(idx[i].path)

\* Mutation of filtered: a criterion is looked up in the index only, not
\* among the other remotely added paths.
FilteredByIndexOnly(files, idx, rules) ==
    {file \in files :
        \E r \in DOMAIN rules : \E t \in DOMAIN rules[r][1] :
            should_be_cloud_only(file, rules[r][1][t], rules[r][2], {}, idx)}

\* Lines 176-179, with the rules as pairs <<targets, criterions>>.
filtered(files, idx, rules) ==
    {file \in files :
        \E r \in DOMAIN rules : \E t \in DOMAIN rules[r][1] :
            should_be_cloud_only(file, rules[r][1][t], rules[r][2], files, idx)}

RECURSIVE CloudOnlyRows(_, _)
CloudOnlyRows(paths, remote_info) ==
    IF paths = <<>> THEN <<>>
    ELSE <<Row(paths[1], remote_info[paths[1]].size, remote_info[paths[1]].hash,
               remote_info[paths[1]].modified, remote_info[paths[1]].modified, TRUE)>>
         \o CloudOnlyRows(Tail(paths), remote_info)

\* filter_cloud_only_files: the index it leaves and the set it returns.
filter_cloud_only_files(files, idx, rules, remote_info) ==
    LET flt == filtered(files, idx, rules)
    IN  [index |-> idx \o CloudOnlyRows(SelectSeq(PathOrder, LAMBDA q : q \in flt),
                                        remote_info),
         files |-> files \ flt,
         filtered |-> flt]

\* The rules of the folder: d/j is cloud only when d/x is known, or the
\* same target without a criterion.
RuleTarget == <<Group("y"), Lit("/"), Lit("j")>>
RuleCriterion == <<Ref("y"), Lit("/"), Lit("x")>>
RulesWithCriterion == << <<(<<RuleTarget>>), (<<RuleCriterion>>)>> >>
RulesWithoutCriterion == << <<(<<RuleTarget>>), (<<>>)>> >>

(***************************************************************************)
(* Cloud reconciler (sync.py, sync_from_cloud).                            *)
(***************************************************************************)
\* write_checkfile: the paths of the rows that have a hash.
checkfile(idx) == {idx[i].path : i \in {k \in DOMAIN idx : idx[k].hash # None}}

\* What the storage tool's check says of each path: of a path of the
\* check file "match", "differ" or "missing_on_dst", of any other path
\* "missing_on_src" (it is in the remote folder) or "none".
CheckResults(idx) ==
    {cat \in [Paths -> {"match", "differ", "missing_on_dst", "missing_on_src", "none"}] :
        \A q \in Paths :
           IF q \in checkfile(idx)
           THEN cat[q] \in {"match", "differ", "missing_on_dst"}
           ELSE cat[q] \in {"missing_on_src", "none"}}

RemoteDetails(t) == [hash : Hashes, modified : TimesUpTo(t), size : Sizes]

\* What line 252 would select if the conjunct were the SQL negation.
NotCloudOnly(row) == ~ row.cloud_only

\* Line 252 applies Python's not to the mapped attribute AllFiles.cloud_only:
\* the attribute object is truthy, so the conjunct is the constant False.
py_not_cloud_only(row) == FALSE

\* Lines 249-254.
deletion_missed(idx, download_files) ==
    {idx[i].path : i \in {k \in DOMAIN idx :
                            /\ idx[k].uploaded # None
                            /\ idx[k].path \in download_files
                            /\ idx[k].size = None
                            /\ py_not_cloud_only(idx[k])}}

\* Lines 259-260: a row with only path and uploaded for each new download.
RECURSIVE DownloadRows(_, _)
DownloadRows(paths, t) ==
    IF paths = <<>> THEN <<>>
    ELSE <<Row(paths[1], None, None, None, t, FALSE)>> \o DownloadRows(Tail(paths), t)

\* Lines 279-282: uploaded := modified on the downloaded rows that have one.
MarkDownloaded(idx, download_files) ==
    [i \in DOMAIN idx |->
        IF idx[i].path \in download_files /\ idx[i].modified # None
        THEN [idx[i] EXCEPT !.uploaded = idx[i].modified]
        ELSE idx[i]]

\* Line 207 with return_directories False: the dict update_all_files returns
\* is that of the rows it leaves, without the paths whose hash is None.
FilesOf(idx) ==
    LET known == known_files(idx)
    IN  [q \in {x \in DOMAIN known : known[x].hash # None} |-> known[q]]

\* Line 237: the condition under which a differing path is downloaded.
remote_is_newer(local_mod_time, remote_time) ==
    local_mod_time = None \/ remote_time > local_mod_time

\* Lines 210-296 of sync_from_cloud at time t, on the index idx that its
\* refresh left.  cat is the check's verdicts, remote the remote listing's
\* details, copy_ok whether the download returned 0.
reconcile(idx, t, rules, cat, remote, copy_ok) ==
    LET files == FilesOf(idx)
        bisync_files == SelectSeq(PathOrder, LAMBDA q : cat[q] = "differ")
        not_uploaded == SelectSeq(PathOrder, LAMBDA q : cat[q] = "missing_on_dst")
        remotely_added == {q \in Paths : cat[q] = "missing_on_src"}
        f == filter_cloud_only_files(remotely_added, idx, rules, remote)
        new_download_files == f.files
        key_error == \E k \in DOMAIN bisync_files : bisync_files[k] \notin DOMAIN files
        to_download(q) == remote_is_newer(files[q].modified, remote[q].modified)
        download0 == new_download_files
                     \cup {q \in Range(bisync_files) : to_download(q)}
        upload_files == not_uploaded
                        \o SelectSeq(bisync_files, LAMBDA q : ~ to_download(q))
        missed == deletion_missed(f.index, download0)
        download_files == download0 \ missed
        idx3 == f.index \o DownloadRows(SetToSeq(new_download_files), t)
        idx4 == IF copy_ok THEN MarkDownloaded(idx3, download_files) ELSE idx3
    IN  IF key_error
        THEN [index |-> f.index, puts |-> <<>>, crashed |-> TRUE,
              discarded |-> {},
              remotely_added |-> remotely_added, filtered |-> f.filtered,
              download |-> {}, upload |-> <<>>, missed |-> {}]
        ELSE [index |-> IF download0 # {} THEN idx4 ELSE f.index,
              puts |-> (IF download0 # {} /\ missed # {}
                        THEN << <<SetToSeq(missed), "delete_files">> >> ELSE <<>>)
                       \o (IF upload_files # <<>>
                           THEN << <<upload_files, "copy">> >> ELSE <<>>),
              crashed |-> FALSE,
              discarded |-> Range(upload_files),
              remotely_added |-> remotely_added, filtered |-> f.filtered,
              download |-> download_files, upload |-> upload_files,
              missed |-> missed]

(***************************************************************************)
(* Specification SpecIndex: one folder with the paths d/j and d/x, its     *)
(* index initially empty, under the clock, the upload syncer on the        *)
(* batches of the change listener, the folder uploader, the global         *)
(* uploader, the index refresh and the cloud reconciler.  A reconciler run *)
(* is two steps, its refresh (line 207) and the rest; nothing else runs    *)
(* between them.                                                           *)
(***************************************************************************)
FileEvents ==
    {Event("LocalChangeDetected", FolderId, a, q, "file") :
        a \in {"modified", "deleted"}, q \in Paths}

\* The change listener delivers one event at a time.
Batches == {<<e>> : e \in FileEvents}

MaxPending == 1

\* The consumers keep up: nothing is produced while the folder uploader
\* holds a collection or the global uploader has an item to take.
Downstream == collect_action = NoAction /\ uploaderQueue = <<>>

MaxCollect == 4

MaxUploads == 1

Tick ==
    /\ syncPc = "idle"
    /\ Downstream
    /\ now < MaxTime * ClockStep
    /\ now' = now + ClockStep
    /\ UNCHANGED <<index, ignores, cloud_only_defaults, syncPc, ghostVars>>
    /\ UNCHANGED <<fuVars, histVars, supVars, auxVars>>

\* The modTimes a pass of the syncer reads from disk.
SeenAfterListen(seen, changes, fs) ==
    [q \in DOMAIN seen |->
        IF q \in Range(PathsFor(changes, "copy"))
        THEN Max(seen[q], fs[q].modified) ELSE seen[q]]

\* A deleted event of a path with rows, none of them cloud only, has been
\* processed, and no modified event of the path since.
SoftDeletedAfter(soft, idx, changes) ==
    (soft \cup {q \in Range(PathsFor(changes, "delete_files")) :
                  /\ RowsOf(idx, q) # {}
                  /\ \A i \in RowsOf(idx, q) : ~ idx[i].cloud_only})
    \ Range(PathsFor(changes, "copy"))

Syncer ==
    \E changes \in Batches :
    \E fs \in [Range(PathsFor(changes, "copy")) -> LocalFiles(now)] :
       /\ syncPc = "idle"
       /\ Downstream
       /\ UploadSyncerListen(changes, fs, MaxPending)
       /\ erased' = {}
       /\ seenMod' = SeenAfterListen(seenMod, changes, fs)
       /\ softDeleted' = IF listen(index, changes, fs).crashed THEN softDeleted
                         ELSE SoftDeletedAfter(softDeleted, index, changes)
       /\ UNCHANGED <<envVars, histVars, supVars, auxVars>>
       /\ UNCHANGED <<fuPc, collect_action, collect_files, uploaderQueue>>

FolderUploaderStep(step) ==
    /\ syncPc = "idle"
    /\ step
    /\ Len(collect_files') <= MaxCollect
    /\ Len(uploaderQueue') <= MaxUploads
    /\ UNCHANGED <<envVars, ghostVars>>
    /\ UNCHANGED <<histVars, supVars, auxVars>>

IndexFUTimedGet == FolderUploaderStep(FUTimedGet)

IndexFUTimeout == FolderUploaderStep(FUTimeout)

IndexFUBlockingGet == FolderUploaderStep(FUBlockingGet)

\* The modTimes a refresh reads: the daemon's, of the listed files it knows
\* (line 100), and the local file's, of the paths it upserts (line 151).
SeenAfterRefresh(seen, idx, io) ==
    LET known == known_files(idx)
        ex == exists(known, io.st, io.fs)
    IN  [q \in DOMAIN seen |->
            Max(Max(seen[q],
                    IF q \in DOMAIN known /\ io.st[q].kind = "file"
                    THEN io.st[q].modTime ELSE None),
                IF q \in ex THEN io.fs[q].modified ELSE None)]

\* Line 207 of sync_from_cloud: the refresh of the index.
SyncRefresh ==
    \E io \in RefreshInputs(index, now) :
       LET u == update_all_files(index, io.st, io.fs, FALSE)
       IN  /\ syncPc = "idle"
           /\ Downstream
           /\ Len(u.index) <= MaxRows
           /\ index' = u.index
           /\ ignores' = discard_ignores(ignores, u.added \cup u.removed \cup u.changed)
           /\ syncPc' = "refreshed"
           /\ erased' = u.deleted
           /\ seenMod' = SeenAfterRefresh(seenMod, index, io)
           /\ softDeleted' = softDeleted \ u.deleted
           /\ UNCHANGED <<now, cloud_only_defaults>>
           /\ UNCHANGED <<fuVars, histVars, supVars, auxVars>>

\* The remote details a run asks for (lines 182 and 236); the others are
\* left at a fixed value.
RemoteInputs(idx, cat, rules, t) ==
    {r \in [Paths -> RemoteDetails(t)] :
        \A q \in Paths :
           \/ cat[q] = "differ"
           \/ q \in filtered({x \in Paths : cat[x] = "missing_on_src"}, idx, rules)
           \/ r[q] = [hash |-> 1, modified |-> 0, size |-> 1]}

\* Whether the download returns 0; it runs when a path is remotely added or
\* differs (line 246 needs a non-empty download list).
CopyResults(idx, cat, rules) ==
    IF \E q \in Paths : cat[q] \in {"missing_on_src", "differ"}
    THEN BOOLEAN ELSE {TRUE}

\* The modTimes the rest of a reconciler run reads: the remote ones of the
\* filtered paths (line 182) and of the differing paths (line 236).
SeenAfterSync(seen, res, cat, remote) ==
    [q \in DOMAIN seen |->
        IF q \in res.filtered \/ cat[q] = "differ"
        THEN Max(seen[q], remote[q].modified) ELSE seen[q]]

SyncReconcile ==
    \E cat \in CheckResults(index) :
    \E remote \in RemoteInputs(index, cat, cloud_only_defaults, now) :
    \E copy_ok \in CopyResults(index, cat, cloud_only_defaults) :
       LET res == reconcile(index, now, cloud_only_defaults, cat, remote, copy_ok)
       IN  /\ syncPc = "refreshed"
           /\ Len(res.index) <= MaxRows
           /\ Len(fuQueue) + Len(res.puts) <= MaxPending
           /\ index' = res.index
           /\ fuQueue' = fuQueue \o res.puts
           /\ ignores' = discard_ignores(ignores, res.discarded)
           /\ syncPc' = "idle"
           /\ erased' = {}
           /\ seenMod' = SeenAfterSync(seenMod, res, cat, remote)
           /\ UNCHANGED <<now, cloud_only_defaults, softDeleted>>
           /\ UNCHANGED <<fuPc, collect_action, collect_files, uploaderQueue>>
           /\ UNCHANGED <<histVars, supVars, auxVars>>

IndexUploader == syncPc = "idle" /\ UploaderListen

InitIndex ==
    /\ index = <<>>
    /\ now = 0
    /\ ignores = {}
    /\ cloud_only_defaults \in {RulesWithCriterion, RulesWithoutCriterion}
    /\ syncPc = "idle"
    /\ erased = {}
    /\ seenMod = <<>>
    /\ softDeleted = {}
    /\ InitFolderUploader
    /\ InitNoWorkers
    /\ InitAux

NextIndex ==
    \/ Tick \/ Syncer \/ SyncRefresh \/ SyncReconcile
    \/ IndexFUTimedGet \/ IndexFUTimeout \/ IndexFUBlockingGet \/ IndexUploader

SpecIndex == InitIndex /\ [][NextIndex]_vars

(***************************************************************************)
(* Specification SpecSyncer: the change listener's batches, of up to       *)
(* MaxBatch events, go through the upload syncer, the folder uploader and  *)
(* the global uploader.                                                    *)
(***************************************************************************)
DirD == <<"d">>

Events ==
    FileEvents
    \cup {Event("RemoteChangeDetected", FolderId, "deleted", DirD, "dir"),
          Event("RemoteChangeDetected", "other", "modified", PJ, "file"),
          Event("ItemFinished", FolderId, "modified", PJ, "file")}

MaxBatch == 2

EventBatches == UNION {[1..n -> Events] : n \in 1..MaxBatch}

BatchSyncer ==
    \E changes \in EventBatches :
    \E fs \in [Range(PathsFor(changes, "copy")) -> LocalFiles(now)] :
       /\ Downstream
       /\ UploadSyncerListen(changes, fs, MaxQueue)
       /\ UNCHANGED <<envVars, ghostVars, histVars, supVars, auxVars>>
       /\ UNCHANGED <<fuPc, collect_action, collect_files, uploaderQueue>>

InitSyncer == InitCommon

NextSyncer ==
    \/ BatchSyncer
    \/ IndexFUTimedGet \/ IndexFUTimeout \/ IndexFUBlockingGet \/ IndexUploader

SpecSyncer == InitSyncer /\ [][NextSyncer]_vars

(***************************************************************************)
(* C1.  The index has at most one row per path, after any sequence of      *)
(* syncer batches (a batch may name a path in two modified events),        *)
(* refreshes and reconciler runs.                                          *)
(***************************************************************************)
Cex_C1 ==
    \A i \in DOMAIN index : \A k \in DOMAIN index :
        index[i].path = index[k].path => i = k

(***************************************************************************)
(* C4.  For each path, what the upload syncer emits for a batch keeps the  *)
(* order of the batch's events: the last message that names the path is    *)
(* the one of the last event of the path (a copy after deleted, modified;  *)
(* a deletion after modified, deleted).                                    *)
(***************************************************************************)
\* The events of the batch the syncer acts on for path q, in batch order.
EventsOf(changes, q) ==
    SelectSeq(changes, LAMBDA ev : /\ ev.folder = FolderId
                                   /\ ev.path = q
                                   /\ EventAction(ev) # "other")

\* The actions of the emitted messages that name path q, in emission order.
EmittedFor(emitted, q) ==
    LET msgs == SelectSeq(emitted, LAMBDA m : q \in Range(m[1]))
    IN  [k \in DOMAIN msgs |-> msgs[k][2]]

Last(seq) == seq[Len(seq)]

\* C4: the last message emitted for a path is the one of its last event.
Cex_C4 ==
    \A changes \in EventBatches :
    \A fs \in [Range(PathsFor(changes, "copy")) -> LocalFiles(now)] :
       LET res == listen(index, changes, fs)
       IN  \A q \in Paths :
              EmittedFor(res.emitted, q) # <<>>
                 => Last(EmittedFor(res.emitted, q))
                       = EventAction(Last(EventsOf(changes, q)))

\* The rows of path q, in rowid order.
RowsAt(idx, q) == SelectSeq(idx, LAMBDA r : r.path = q)

\* Path q has rows, and hash, modTime and size are absent in all of them.
BytesAbsent(idx, q) ==
    /\ RowsOf(idx, q) # {}
    /\ \A i \in RowsOf(idx, q) :
          idx[i].size = None /\ idx[i].hash = None /\ idx[i].modified = None

PathsIn(idx) == {idx[i].path : i \in DOMAIN idx}

ErasedOnlyWhenGloballyDeleted ==
    \A io \in RefreshInputs(index, now) :
       LET u == update_all_files(index, io.st, io.fs, TRUE)
       IN  \A q \in PathsIn(index) :
              q \notin PathsIn(u.index)
                 <=> /\ io.st[q].kind = "absent"
                     /\ io.st[q].dbfile \in {"nosuch", "deleted", "ignored"}

OnlyRefreshErases ==
    PathsIn(index) \subseteq PathsIn(index')
       \/ (syncPc = "idle" /\ syncPc' = "refreshed")

DeletionMissedRow(idx, q) ==
    \E i \in RowsOf(idx, q) :
       idx[i].uploaded # None /\ idx[i].size = None /\ ~ idx[i].cloud_only

\* C7: a deletion-missed path is put in a delete_files message and is not
\* downloaded.
Cex_C7 ==
    syncPc = "refreshed" =>
       \A cat \in CheckResults(index) :
       \A remote \in RemoteInputs(index, cat, cloud_only_defaults, now) :
          LET res == reconcile(index, now, cloud_only_defaults, cat, remote, TRUE)
          IN  \A q \in Paths :
                 (/\ DeletionMissedRow(index, q)
                  /\ cat[q] = "missing_on_src"
                  /\ q \notin res.filtered
                  /\ ~ res.crashed)
                    => /\ \E k \in DOMAIN res.puts :
                             res.puts[k][2] = "delete_files" /\ q \in Range(res.puts[k][1])
                       /\ q \notin res.download

(***************************************************************************)
(* C8.  Cloud-only filtering: a remotely added path that matches a rule's  *)
(* target, when the rule has no criterion or one of its criteria, with the *)
(* groups of the match filled in, matches a path of the index or another   *)
(* remotely added path of the run, gets a row with cloud_only true and     *)
(* uploaded = modified and is not downloaded; a remotely added path that   *)
(* matches no rule's target is downloaded.                                 *)
(***************************************************************************)
MatchesTarget(q, rules) ==
    \E r \in DOMAIN rules : \E t \in DOMAIN rules[r][1] :
       fullmatch(rules[r][1][t], q).ok

MatchesRule(q, rules, others) ==
    \E r \in DOMAIN rules : \E t \in DOMAIN rules[r][1] :
       LET m == fullmatch(rules[r][1][t], q)
       IN  /\ m.ok
           /\ \/ rules[r][2] = <<>>
              \/ \E c \in DOMAIN rules[r][2] : \E other \in others :
                    fullmatch(format(rules[r][2][c], m.groups), other).ok

CloudOnlyRow(idx, q, t) ==
    \E i \in RowsOf(idx, q) :
       idx[i].cloud_only /\ idx[i].uploaded = t /\ idx[i].modified = t

Cex_C9 ==
    \A i \in DOMAIN index : index[i].cloud_only => index[i].uploaded # None

(***************************************************************************)
(* Specification SpecSeen: SpecIndex under the rule with the criterion,    *)
(* with seenMod recording the latest modTime read for each path.           *)
(***************************************************************************)
InitSeen ==
    /\ index = <<>>
    /\ now = 0
    /\ ignores = {}
    /\ cloud_only_defaults = RulesWithCriterion
    /\ syncPc = "idle"
    /\ erased = {}
    /\ seenMod = [q \in Paths |-> None]
    /\ softDeleted = {}
    /\ InitFolderUploader
    /\ InitNoWorkers
    /\ InitAux

SpecSeen == InitSeen /\ [][NextIndex]_vars

(***************************************************************************)
(* C10.  In every row with uploaded present, uploaded is at most the       *)
(* latest modTime that has been read for the row's path.                   *)
(***************************************************************************)
Cex_C10 ==
    \A i \in DOMAIN index :
       index[i].uploaded # None => index[i].uploaded <= seenMod[index[i].path]

(***************************************************************************)
(* C11.  A row's uploaded is set to its modified by the upload pipeline    *)
(* only in the step in which the global uploader's transfer of the path    *)
(* completes; a transfer that fails or has not yet run leaves uploaded as  *)
(* it was.                                                                 *)
(***************************************************************************)
\* The uploaded values that are present in the rows of path q.
UploadedAt(idx, q) ==
    {idx[i].uploaded : i \in RowsOf(idx, q)} \ {None}

\* The step is the global uploader taking a copy / move that names q.
TransferOf(q) ==
    /\ uploaderQueue # <<>>
    /\ uploaderQueue' = Tail(uploaderQueue)
    /\ q \in Range(Head(uploaderQueue)[1])

UploadedOnlyAfterTransfer ==
    \A q \in Paths :
       UploadedAt(index', q) \subseteq UploadedAt(index, q) \/ TransferOf(q)

\* C11: uploaded becomes present only in a step that is the transfer.
Cex_C11 == [][UploadedOnlyAfterTransfer]_vars

(***************************************************************************)
(* Scheduler (manager.py, start_main_loop).  An instant is a number of     *)
(* hours since midnight of the day the scheduler started.  The model has   *)
(* the two daily tasks of TASKS: "check" (check_processes, 01:00,          *)
(* skip_if_running) and "sync" (sync_from_cloud, 23:00).  A task is        *)
(* [next_time, retry_count, enabled, process, live]: process is the state  *)
(* of the Process object task.process ("none", "alive", "exit0", "exit1"   *)
(* for a non-zero exit code); live counts the processes spawned for the    *)
(* task that have not exited.                                              *)
(***************************************************************************)
Day == 24

\* datetime.max
MaxInstant == 100000

\* TimedTask.max_retry_count of the tasks of the model.
MaxRetryCount == 2

\* How many hours after the instant it was asked for a sleep may return.
MaxLate == 3

\* The scheduler is followed up to this instant.
MaxClock == 52

TaskOrder == <<"check", "sync">>

TaskNames == Range(TaskOrder)

\* TASKS: the constructor arguments, and the exit codes the task's callable
\* can give (check_processes is called without its second argument and
\* always raises).
TaskSpec ==
    [check |-> [time |-> 1, time_diff |-> Day, max_delay |-> 4, retry_time |-> 1,
                skip_if_running |-> TRUE, exit_codes |-> {"exit1"}],
     sync  |-> [time |-> 23, time_diff |-> Day, max_delay |-> 2, retry_time |-> 1,
                skip_if_running |-> FALSE, exit_codes |-> {"exit0", "exit1"}]]

\* TimedTask.get_next_scheduled: n1 is the clock read of line 63, n2 the one
\* of the loop test of line 66.
RECURSIVE advance(_, _, _, _)
advance(time, n2, maxiter, time_diff) ==
    IF time < n2 /\ maxiter > 0
    THEN advance(time + time_diff, n2, maxiter - 1, time_diff)
    ELSE time

get_next_scheduled(t, n1, n2) ==
    advance((n1 \div Day) * Day + TaskSpec[t].time, n2, 10, TaskSpec[t].time_diff)

\* TimedTask.get_next_retry
get_next_retry(t, scheduled_time) == scheduled_time + TaskSpec[t].retry_time

\* Mutation of check_if_ok_now: the window has no upper end.
CheckIfNotEarly(t, scheduled_time, n) == 0 <= n - scheduled_time

\* TimedTask.check_if_ok_now, n being the clock read
check_if_ok_now(t, scheduled_time, n) ==
    0 <= n - scheduled_time /\ n - scheduled_time < TaskSpec[t].max_delay

\* Line 371: min(TASKS, key=next_time), the first of the smallest.
Picked ==
    LET least == CHOOSE m \in {tasks[t].next_time : t \in TaskNames} :
                    \A t \in TaskNames : m <= tasks[t].next_time
        first == CHOOSE i \in DOMAIN TaskOrder :
                    /\ tasks[TaskOrder[i]].next_time = least
                    /\ \A k \in 1..(i - 1) : tasks[TaskOrder[k]].next_time # least
    IN  TaskOrder[first]

\* Lines 373-376: the exit-code step.
exit_code_step(task) ==
    IF task.process = "exit1" THEN task.retry_count + 1 ELSE 0

\* Mutation of disable: enabled is cleared, next_time is left alone.
DisableKeepsNextTime(task) == [task EXCEPT !.enabled = FALSE]

\* Lines 381-382
disable(task) == [task EXCEPT !.enabled = FALSE, !.next_time = MaxInstant]

\* Lines 373-382: the task after the exit-code step and the disabling.
after_exit_code_step(task) ==
    LET a == [task EXCEPT !.retry_count = exit_code_step(task)]
    IN  IF a.retry_count > MaxRetryCount THEN disable(a) ELSE a

\* Mutation of previous_alive: the previous process is not looked at.
PreviousAliveIgnored(task) == FALSE

\* Line 400: task.process is not None and task.process.is_alive()
previous_alive(task) == task.process = "alive"

\* One pass of the loop of start_main_loop on task t: n1 is the clock after
\* the sleep, n2 a later read of it inside get_next_scheduled, spawn_ok
\* whether Process(...).start() succeeds.
pass(t, task, n1, n2, spawn_ok) ==
    LET b == after_exit_code_step(task)
        next_retry == get_next_retry(t, b.next_time)
        scheduled == get_next_scheduled(t, n1, n2)
    IN  IF ~ b.enabled
        THEN [kind |-> IF exit_code_step(task) > MaxRetryCount THEN "disable"
                       ELSE "disabled",
              task |-> b, clock |-> None]
        ELSE IF ~ check_if_ok_now(t, b.next_time, n1)
        THEN [kind |-> "late",
              task |-> [b EXCEPT !.next_time = next_retry,
                                 !.retry_count = b.retry_count + 1],
              clock |-> n1]
        ELSE IF previous_alive(b)
        THEN IF TaskSpec[t].skip_if_running
             THEN [kind |-> "skip",
                   task |-> [b EXCEPT !.next_time = scheduled, !.retry_count = 0],
                   clock |-> n2]
             ELSE [kind |-> "running",
                   task |-> [b EXCEPT !.next_time = next_retry,
                                      !.retry_count = b.retry_count + 1],
                   clock |-> n1]
        ELSE IF spawn_ok
        THEN [kind |-> "spawn",
              task |-> [b EXCEPT !.process = "alive", !.live = b.live + 1,
                                 !.next_time = scheduled],
              clock |-> n2]
        ELSE [kind |-> "spawn_failed",
              task |-> [b EXCEPT !.next_time = next_retry],
              clock |-> n1]

\* The instants at which a sleep until instant until, begun at instant t,
\* can return.
Wake(t, until) == Max(t, until)..(Max(t, until) + MaxLate)

SchedPass ==
    /\ schedPc = "loop"
    /\ LET t == Picked
           b == after_exit_code_step(tasks[t])
       IN  /\ b.retry_count <= MaxRetryCount + 2
           /\ \E n1 \in Wake(now, b.next_time) : \E late \in 0..1 :
              \E spawn_ok \in BOOLEAN :
                 LET r == pass(t, tasks[t], n1, n1 + late, spawn_ok)
                 IN  /\ b.enabled => n1 + late <= MaxClock
                     /\ tasks' = [tasks EXCEPT ![t] = r.task]
                     /\ now' = IF r.clock = None THEN now ELSE r.clock
                     /\ schedPc' = IF r.kind = "spawn_failed" THEN "raised"
                                   ELSE "loop"
                     /\ lastPick' = [task |-> t, kind |-> r.kind, at |-> n1,
                                     old |-> tasks[t], after_exit |-> b,
                                     new |-> r.task]
    /\ UNCHANGED <<index, ignores, cloud_only_defaults, syncPc, ghostVars>>
    /\ UNCHANGED <<fuVars, histVars, supVars, otherVars, callVars>>

\* The process of a task exits.
TaskProcExit ==
    /\ \E t \in TaskNames : \E code \in TaskSpec[t].exit_codes :
          /\ tasks[t].process = "alive"
          /\ tasks' = [tasks EXCEPT ![t].process = code,
                                    ![t].live = tasks[t].live - 1]
    /\ UNCHANGED <<schedPc, lastPick>>
    /\ UNCHANGED <<indexVars, fuVars, histVars, supVars, otherVars, callVars>>

\* Lines 361-368, the scheduler starting at midnight.
InitSched ==
    /\ InitIndexState
    /\ InitFolderUploader
    /\ InitNoWorkers
    /\ InitNoRetry
    /\ InitNoListener
    /\ InitNoCalls
    /\ tasks = [t \in TaskNames |->
                   [NoTask EXCEPT !.next_time = get_next_scheduled(t, 0, 0)]]
    /\ schedPc = "loop"
    /\ lastPick = NoPick

NextSched == SchedPass \/ TaskProcExit

SpecSched == InitSched /\ [][NextSched]_vars

\* The kinds of pass that assign task.next_time.
AssigningKinds == {"disable", "late", "skip", "running", "spawn", "spawn_failed"}

\* C12: every value a pass of the scheduler assigns to next_time is strictly
\* greater than the value it replaces.
Cex_C12 ==
    lastPick.kind \in AssigningKinds
        => lastPick.new.next_time > lastPick.old.next_time

\* A pass p of the loop has been made, on a task that was not disabled.
EnabledPick(p) == p.task # "none" /\ p.after_exit.enabled

\* The pass started a process for its task.
Spawned(p) == p.new.live > p.old.live

\* The clock read after the sleep was inside the task's window.
InWindow(p) ==
    /\ 0 <= p.at - p.old.next_time
    /\ p.at - p.old.next_time < TaskSpec[p.task].max_delay

\* The pass left the task's process alone, moved next_time by retry_time and
\* added one to the retry_count the exit-code step of the same pass had left.
Bumped(p) ==
    /\ ~ Spawned(p)
    /\ p.new.process = p.old.process
    /\ p.new.next_time = p.old.next_time + TaskSpec[p.task].retry_time
    /\ p.new.retry_count = p.after_exit.retry_count + 1

Cex_C14 ==
    lastPick.kind \in {"late", "running"}
        => lastPick.new.retry_count = lastPick.old.retry_count + 1

\* C15 (state): a pass whose exit-code step leaves retry_count above
\* max_retry_count clears enabled, sets next_time to datetime.max and does not
\* spawn; a disabled task has next_time = datetime.max.
DisabledAtMax ==
    /\ lastPick.task # "none" /\ lastPick.after_exit.retry_count > MaxRetryCount
          => /\ ~ lastPick.new.enabled
             /\ lastPick.new.next_time = MaxInstant
             /\ ~ Spawned(lastPick)
    /\ \A t \in TaskNames : ~ tasks[t].enabled => tasks[t].next_time = MaxInstant

\* C15 (step): a task whose retry_count is above max_retry_count, or that is
\* disabled, stays so and no process is started for it.
NeverSpawnedAgain ==
    \A t \in TaskNames :
       /\ tasks[t].retry_count > MaxRetryCount
             => tasks'[t].retry_count > MaxRetryCount
       /\ ~ tasks[t].enabled => ~ tasks'[t].enabled
       /\ tasks[t].retry_count > MaxRetryCount \/ ~ tasks[t].enabled
             => tasks'[t].live <= tasks[t].live

\* C15: once retry_count is above max_retry_count the scheduler disables the
\* task, with next_time at the maximum instant, and never spawns it again.
Thm_C15 == [] DisabledAtMax /\ [][NeverSpawnedAgain]_vars

Wit_C15 ==
    /\ lastPick.kind = "disable"
    /\ ~ tasks[lastPick.task].enabled
    /\ lastPick.old.enabled

DefaultMaxRetryCount == 10
DefaultRetryExpiry == 360
DefaultRetryDelay == 1
DayLength == 8640

\* A run of the function that fails does so at once or after this long.
LongRun == 77

\* The call is followed up to this number of failures.
MaxFailures == 22

\* GlobalConfig.max_failures_per_hour and max_failures_per_day: the defaults,
\* and a configuration file with a lower hourly ceiling.
Configs ==
    {[max_failures_per_hour |-> 5, max_failures_per_day |-> 20],
     [max_failures_per_hour |-> 2, max_failures_per_day |-> 20]}

\* Lines 544-545: runs.pop(0) while its first entry is older than retry_expiry.
RECURSIVE expire(_, _, _)
expire(runs, retry_expiry, curr_time) ==
    IF runs # <<>> /\ Head(runs) + retry_expiry < curr_time
    THEN expire(Tail(runs), retry_expiry, curr_time)
    ELSE runs

\* The entries of a list of instants that are at most retry_expiry older than
\* curr_time.
Within(times, retry_expiry, curr_time) ==
    SelectSeq(times, LAMBDA x : x + retry_expiry >= curr_time)

\* Lines 533-552, one turn of the loop in which the function raises after
\* running for d: the start is recorded, then the failure, after the sleep.
RetryFail ==
    /\ retry.pc = "run"
    /\ retry.failed < MaxFailures
    /\ \E d \in {0, LongRun} :
          LET curr_time == now + d + DefaultRetryDelay
              runs == Append(expire(Append(retry.runs, now), DefaultRetryExpiry,
                                    curr_time),
                             curr_time)
          IN  /\ now' = curr_time
              /\ retry' = [retry EXCEPT
                    !.runs = runs,
                    !.pc = IF Len(runs) > DefaultMaxRetryCount THEN "raised"
                           ELSE "run",
                    !.failures = Append(Within(retry.failures, DefaultRetryExpiry,
                                               curr_time), curr_time),
                    !.failed = retry.failed + 1]
    /\ UNCHANGED <<index, ignores, cloud_only_defaults, syncPc, ghostVars>>
    /\ UNCHANGED <<fuVars, histVars, supVars, schedVars, listener, callVars>>

\* Lines 534-536, a turn in which the function returns.
RetryReturn ==
    /\ retry.pc = "run"
    /\ \E d \in {0, LongRun} : now' = now + d
    /\ retry' = [retry EXCEPT !.runs = Append(retry.runs, now), !.pc = "returned"]
    /\ UNCHANGED <<index, ignores, cloud_only_defaults, syncPc, ghostVars>>
    /\ UNCHANGED <<fuVars, histVars, supVars, schedVars, listener, callVars>>

\* main, lines 446-515: the configuration is read, then retry_on_error is
\* called.
InitRetry ==
    /\ InitIndexState
    /\ InitFolderUploader
    /\ InitNoWorkers
    /\ InitNoTasks
    /\ InitNoListener
    /\ InitNoCalls
    /\ \E c \in Configs :
          retry = [pc |-> "run", runs |-> <<>>, failures |-> <<>>, failed |-> 0,
                   config |-> c]

NextRetry == RetryFail \/ RetryReturn

SpecRetry == InitRetry /\ [][NextRetry]_vars

\* A failure has just been recorded: the function has raised and the turn of
\* the loop is over.
FailureRecorded == retry.failed > 0 /\ retry.pc \in {"run", "raised"}

\* C17: after a failure retry_on_error has re-raised exactly when the failures
\* of the last retry_expiry seconds, the current one included, are more than
\* max_retry_count; otherwise it runs the function again.
Cex_C17 ==
    FailureRecorded
        => (retry.pc = "raised" <=> Len(retry.failures) > DefaultMaxRetryCount)

\* C18: after a failure is recorded the window runs holds exactly one entry for
\* each failure of the last retry_expiry seconds, and no entry older than that.
Cex_C18 ==
    FailureRecorded
        => /\ retry.runs = retry.failures
           /\ \A i \in DOMAIN retry.runs : retry.runs[i] + DefaultRetryExpiry >= now

\* C19: during the first day the message-server loop has been abandoned exactly
\* when the failures of the last hour are more than max_failures_per_hour or
\* those of the day more than max_failures_per_day of the configuration.
Cex_C19 ==
    FailureRecorded /\ now <= DayLength
        => (retry.pc = "raised"
              <=> \/ Len(retry.failures) > retry.config.max_failures_per_hour
                  \/ retry.failed > retry.config.max_failures_per_day)

(***************************************************************************)
(* SyncthingChangeListener (change_listener.py) with its last-event file   *)
(* and the queues it was given.  listener.events is the id of the latest   *)
(* event of the Syncthing daemon (ids are 1, 2, ...); listener.file is the *)
(* number in last_event_file (0: no readable number); listener.batch holds *)
(* the ids get_change returned; listener.received[q] (history) the ids put *)
(* on queue q.  The process can be terminated at any point and is then     *)
(* constructed again.                                                      *)
(***************************************************************************)
MaxEvents == 3
NumQueues == 2

ListenerQueues == 1..NumQueues

\* The Syncthing daemon records a disk event.
DaemonEvent ==
    /\ listener.pc # "none"
    /\ listener.events < MaxEvents
    /\ listener' = [listener EXCEPT !.events = listener.events + 1]
    /\ UNCHANGED <<indexVars, fuVars, histVars, supVars, schedVars, retry,
                   callVars>>

\* get_syncthing_changes: the events after since, as the daemon has them now.
get_syncthing_changes(since) == (since + 1)..listener.events

\* SyncthingChangeListener.get_last_event, found being the file's number.
get_last_event(found) ==
    IF found <= 0 THEN 0
    ELSE IF get_syncthing_changes(found - 1) = {} THEN 0
    ELSE found

\* get_change with a non-empty answer: last_event is set to the last id and
\* written to the file; listen then holds the batch.
GetChange ==
    /\ listener.pc = "get"
    /\ get_syncthing_changes(listener.last_event) # {}
    /\ listener' = [listener EXCEPT
          !.batch = get_syncthing_changes(listener.last_event),
          !.last_event = listener.events,
          !.file = listener.events,
          !.pc = "put",
          !.next_queue = 1]
    /\ UNCHANGED <<indexVars, fuVars, histVars, supVars, schedVars, retry,
                   callVars>>

\* listen, one turn of "for queue in self.queues: queue.put(update)".
Put ==
    /\ listener.pc = "put"
    /\ LET q == listener.next_queue
       IN  listener' = [listener EXCEPT
              !.received[q] = listener.received[q] \cup listener.batch,
              !.next_queue = IF q = NumQueues THEN 0 ELSE q + 1,
              !.batch = IF q = NumQueues THEN {} ELSE listener.batch,
              !.pc = IF q = NumQueues THEN "get" ELSE "put"]
    /\ UNCHANGED <<indexVars, fuVars, histVars, supVars, schedVars, retry,
                   callVars>>

\* The process is terminated: what it held in memory is gone.  Terminated
\* inside write_last_event, after open(..., "w"), it leaves the file empty.
Terminate ==
    /\ listener.pc \in {"get", "put"}
    /\ \E file \in {listener.file} \cup
                   (IF listener.pc = "get"
                       /\ get_syncthing_changes(listener.last_event) # {}
                    THEN {0} ELSE {}) :
          listener' = [listener EXCEPT !.pc = "down", !.batch = {},
                                       !.next_queue = 0, !.file = file]
    /\ UNCHANGED <<indexVars, fuVars, histVars, supVars, schedVars, retry,
                   callVars>>

\* The listener is constructed again: __init__ reads last_event back.
Restart ==
    /\ listener.pc = "down"
    /\ listener' = [listener EXCEPT !.pc = "get",
                                    !.last_event = get_last_event(listener.file)]
    /\ UNCHANGED <<indexVars, fuVars, histVars, supVars, schedVars, retry,
                   callVars>>

\* A first construction: no file yet, or the file a previous run left.
InitListener ==
    /\ InitIndexState
    /\ InitFolderUploader
    /\ InitNoWorkers
    /\ InitNoTasks
    /\ InitNoRetry
    /\ InitNoCalls
    /\ listener = [pc |-> "get", events |-> 0, last_event |-> 0, file |-> 0,
                   batch |-> {}, next_queue |-> 0,
                   received |-> [q \in ListenerQueues |-> {}]]

NextListener == DaemonEvent \/ GetChange \/ Put \/ Terminate \/ Restart

SpecListener == InitListener /\ [][NextListener]_vars

\* C20: a listener at the top of its loop, restarted or not, has put every
\* event up to last_event on every registered queue (no event the file has
\* passed is still undelivered).
Cex_C20 ==
    listener.pc = "get"
        => \A q \in ListenerQueues : \A id \in 1..listener.last_event :
              id \in listener.received[q]

(***************************************************************************)
(* extend_ignores (util.py) against the sync daemon's ignore list of the   *)
(* folder.  A path is a string, a sequence of the characters "/" and "a".  *)
(* The variable ignores holds the daemon's list as the set of its lines;   *)
(* ignoreCalls (history) holds the calls made: the argument new, the list  *)
(* before and after, and whether the call returned.                        *)
(***************************************************************************)
MaxPathLen == 2
MaxNew == 2
MaxStored == 1
MaxCalls == 2

Chars == {"/", "a"}

IgnoreStrings == UNION {[1..n -> Chars] : n \in 0..MaxPathLen}

\* The arguments new, and the lists the daemon holds at first.
NewSets == {S \in SUBSET IgnoreStrings : Cardinality(S) <= MaxNew}
StoredLists == {S \in SUBSET IgnoreStrings : Cardinality(S) <= MaxStored}

\* Mutation of leading_slash: the slash is prepended to every path.
AlwaysPrepend(path) == <<"/">> \o path

\* Line 506: f"/{path}" if not str(path).startswith("/") else str(path)
leading_slash(path) ==
    IF path # <<>> /\ path[1] = "/" THEN path ELSE <<"/">> \o path

\* Lines 506-508: what modify_ignores is asked to store.
extended(stored, new) == stored \cup {leading_slash(path) : path \in new}

\* modify_ignores (lines 436-492): the GET fails or never has the key and
\* nothing is posted; the POST raises, applied by the daemon or not; or both
\* succeed.  ok is the value modify_ignores returns.
ModifyOutcomes(stored, wanted) ==
    {[ok |-> FALSE, stored |-> stored],
     [ok |-> FALSE, stored |-> wanted],
     [ok |-> TRUE, stored |-> wanted]}

\* extend_ignores(new): returns when modify_ignores returned True, raises
\* ChildProcessError otherwise.
ExtendIgnores ==
    /\ Len(ignoreCalls) < MaxCalls
    /\ \E new \in NewSets :
       \E out \in ModifyOutcomes(ignores, extended(ignores, new)) :
          /\ ignores' = out.stored
          /\ ignoreCalls' =
                Append(ignoreCalls, [new |-> new, before |-> ignores,
                                     after |-> out.stored, ok |-> out.ok])
    /\ UNCHANGED <<index, now, cloud_only_defaults, syncPc, ghostVars>>
    /\ UNCHANGED <<fuVars, histVars, supVars, schedVars, otherVars>>
    /\ UNCHANGED <<sameFileCall, folderRun, archiveRun, listenCall, laterVars>>

InitIgnores ==
    /\ index = <<>>
    /\ now = 0
    /\ ignores \in StoredLists
    /\ cloud_only_defaults = <<>>
    /\ syncPc = "idle"
    /\ erased = {}
    /\ seenMod = [q \in Paths |-> None]
    /\ softDeleted = {}
    /\ InitFolderUploader
    /\ InitNoWorkers
    /\ InitNoTasks
    /\ InitNoRetry
    /\ InitNoListener
    /\ InitNoCalls

NextIgnores == ExtendIgnores

SpecIgnores == InitIgnores /\ [][NextIgnores]_vars

\* Calls k and k + 1 both returned and had the same argument.
SameCallTwice(k) ==
    /\ k + 1 \in DOMAIN ignoreCalls
    /\ ignoreCalls[k].ok /\ ignoreCalls[k + 1].ok
    /\ ignoreCalls[k].new = ignoreCalls[k + 1].new

\* The second of two equal calls leaves the list the first one left.
Idempotent ==
    \A k \in DOMAIN ignoreCalls :
       SameCallTwice(k) => ignoreCalls[k + 1].after = ignoreCalls[k].after

\* The number of slashes a string begins with.
RECURSIVE LeadingSlashes(_)
LeadingSlashes(path) ==
    IF path # <<>> /\ path[1] = "/" THEN 1 + LeadingSlashes(Tail(path)) ELSE 0

EntryHashes == {None, 1, 2}
EntryTimes == {None, 0, 5, 20}
EntrySizes == {None, 1, 2}

Entries ==
    (EntryHashes \X EntryTimes \X EntrySizes) \cup (EntryTimes \X EntrySizes)

\* Lines 266-313.  In the branch of two triples the instants decide nothing
\* once both are present (lines 285-292 only log).
is_same_file(file1, file2) ==
    IF Len(file1) = 3 /\ Len(file2) = 3
    THEN IF file1[1] # file2[1] THEN FALSE
         ELSE IF file1[3] # file2[3] THEN FALSE
         ELSE IF file1[2] = None \/ file2[2] = None THEN file1[2] = file2[2]
         ELSE TRUE
    ELSE is_same_file_pair(file1[Len(file1) - 1], file1[Len(file1)],
                           file2[Len(file2) - 1], file2[Len(file2)])

IsSameFileCall ==
    /\ sameFileCall = <<>>
    /\ \E file1 \in Entries : \E file2 \in Entries :
          sameFileCall' = <<[file1 |-> file1, file2 |-> file2,
                             result |-> is_same_file(file1, file2)]>>
    /\ UNCHANGED <<indexVars, fuVars, histVars, supVars, schedVars, otherVars>>
    /\ UNCHANGED <<ignoreCalls, folderRun, archiveRun, listenCall, laterVars>>

InitSameFile == InitCommon

NextSameFile == IsSameFileCall

SpecSameFile == InitSameFile /\ [][NextSameFile]_vars

\* C22: is_same_file(x, x) is true for every entry x, triple or pair, with
\* hash, modTime or size absent or not.
Thm_C22 ==
    \A k \in DOMAIN sameFileCall :
       sameFileCall[k].file1 = sameFileCall[k].file2 => sameFileCall[k].result

Wit_C22 ==
    /\ sameFileCall # <<>>
    /\ sameFileCall[1].file1 = <<None, None, 1>>
    /\ sameFileCall[1].file2 = <<None, None, 1>>
    /\ sameFileCall[1].result

(***************************************************************************)
(* do_for_all_folders (manager.py) around the three for-all-folders tasks. *)
(* What happens to the inner callable on one folder is one of:             *)
(*   archive: "none", "no_archive_config" (returns at once),               *)
(*     "mount_failed" (run_command of reconnect raises, before the try),   *)
(*     "sync_failed" (sync_with_archive raises, caught and logged),        *)
(*     "eject_failed" (run_command of eject raises, in the finally);       *)
(*   sync_from_cloud: "none", "check_failed" (the storage tool's check     *)
(*     exits with an unexpected code, run_command raises),                 *)
(*     "download_failed" (OSError inside the try, caught and logged);      *)
(*   handle_trash: "none", "delete_failed" (strict=False, only logged).    *)
(***************************************************************************)
NumFolders == 3

FolderTasks == {"archive", "sync_from_cloud", "handle_trash"}

ErrorsOf(task) ==
    CASE task = "archive" ->
            {"none", "no_archive_config", "mount_failed", "sync_failed",
             "eject_failed"}
      [] task = "sync_from_cloud" -> {"none", "check_failed", "download_failed"}
      [] task = "handle_trash" -> {"none", "delete_failed"}

\* Whether the inner callable raises: archiver.py 260-287, sync.py 207-223,
\* trashhandler.py 7-9.
raises(task, error) == error \in {"mount_failed", "eject_failed", "check_failed"}

\* Lines 314-316: the folders the task is executed for, from folder k on; the
\* loop has no try, so the first raise ends it.
RECURSIVE executed_from(_, _, _)
executed_from(task, errors, k) ==
    IF k > Len(errors) THEN {}
    ELSE {k} \cup (IF raises(task, errors[k]) THEN {}
                   ELSE executed_from(task, errors, k + 1))

DoForAllFolders ==
    /\ folderRun = <<>>
    /\ \E task \in FolderTasks : \E errors \in [1..NumFolders -> ErrorsOf(task)] :
          folderRun' = <<[task |-> task, errors |-> errors,
                          executed |-> executed_from(task, errors, 1),
                          raised |-> \E k \in 1..NumFolders :
                                        raises(task, errors[k])]>>
    /\ UNCHANGED <<indexVars, fuVars, histVars, supVars, schedVars, otherVars>>
    /\ UNCHANGED <<ignoreCalls, sameFileCall, archiveRun, listenCall, laterVars>>

InitFolders == InitCommon

NextFolders == DoForAllFolders

SpecFolders == InitFolders /\ [][NextFolders]_vars

\* C23: whatever error the task meets on one folder, a mount, check or other
\* failure, the task is executed for every folder of the run.
Cex_C23 ==
    \A r \in DOMAIN folderRun : folderRun[r].executed = 1..NumFolders

(***************************************************************************)
(* sync_with_archive (archiver.py), from the scan of the local folder to   *)
(* the move: lines 337-427.  local_files maps the paths get_files found to *)
(* [time, size]; the run is made at instant ArchiveNow.  archiveRun holds  *)
(* the inputs of the run and the lists it computed.                        *)
(***************************************************************************)
ArchiveNow == 4

\* The paths of the local folder, in the order of their names.
ArchiveNames == <<"a", "b", "c">>

LocalFolders ==
    UNION {[S -> [time : {1, 2, 3}, size : {100, 200, 300}]] :
              S \in SUBSET Range(ArchiveNames)}

\* freeup_needed and config.local_keep_time of the runs.
FreeupNeeded == {-1, 0, 250, 300}
LocalKeepTimes == {None, 2}

\* The second rclone check (lines 393-397): it raises, or missing.txt lists
\* these paths.
CheckOutcomes ==
    {[failed |-> TRUE, missing |-> {}]}
    \cup {[failed |-> FALSE, missing |-> S] : S \in SUBSET Range(ArchiveNames)}

NamesIn(local_files) ==
    SelectSeq(ArchiveNames, LAMBDA n : n \in DOMAIN local_files)

\* Lines 350-357: the files older than local_keep_time.
aged(local_files, local_keep_time) ==
    IF local_keep_time = None THEN <<>>
    ELSE SelectSeq(NamesIn(local_files),
                   LAMBDA n : ArchiveNow - local_files[n].time > local_keep_time)

\* Position of name n in ArchiveNames.
NameIndex(n) == CHOOSE i \in DOMAIN ArchiveNames : ArchiveNames[i] = n

\* (date, name) of m is before (date, name) of n.
Before(local_files, m, n) ==
    \/ local_files[m].time < local_files[n].time
    \/ local_files[m].time = local_files[n].time /\ NameIndex(m) < NameIndex(n)

\* Line 366: sorted((date, name, size) ...), as the sequence of names.
RECURSIVE sorted(_, _)
sorted(local_files, names) ==
    IF names = {} THEN <<>>
    ELSE LET first == CHOOSE n \in names :
                         \A m \in names \ {n} : Before(local_files, n, m)
         IN  <<first>> \o sorted(local_files, names \ {first})

\* Mutation of take: the loop stops only when more than needed is freed.
RECURSIVE TakeStrictlyMore(_, _, _, _)
TakeStrictlyMore(local_files, order, freed, needed) ==
    IF order = <<>> THEN <<>>
    ELSE <<Head(order)>>
         \o (IF freed + local_files[Head(order)].size > needed THEN <<>>
             ELSE TakeStrictlyMore(local_files, Tail(order),
                                   freed + local_files[Head(order)].size, needed))

\* Lines 366-372: append, add the size, break when freed_up_space >= needed.
RECURSIVE take(_, _, _, _)
take(local_files, order, freed, needed) ==
    IF order = <<>> THEN <<>>
    ELSE <<Head(order)>>
         \o (IF freed + local_files[Head(order)].size >= needed THEN <<>>
             ELSE take(local_files, Tail(order),
                       freed + local_files[Head(order)].size, needed))

\* Lines 359-375: what the free-up pass appends.
free_up(local_files, freeup_needed) ==
    IF freeup_needed > 0
    THEN take(local_files, sorted(local_files, DOMAIN local_files), 0,
              freeup_needed)
    ELSE <<>>

\* Mutation of withhold: the missing paths are not taken out.
WithholdNothing(delete_from_local, check) ==
    IF check.failed THEN <<>> ELSE delete_from_local

\* Lines 390-410: delete_from_local after the check; the set difference is
\* listed in the order of the names.
withhold(delete_from_local, check) ==
    IF check.failed THEN <<>>
    ELSE IF check.missing # {}
    THEN SelectSeq(ArchiveNames,
                   LAMBDA n : n \in Range(delete_from_local) \ check.missing)
    ELSE delete_from_local

SyncWithArchive ==
    /\ archiveRun = <<>>
    /\ \E local_files \in LocalFolders : \E freeup_needed \in FreeupNeeded :
       \E local_keep_time \in LocalKeepTimes : \E check \in CheckOutcomes :
       \E ignored \in BOOLEAN :
          LET old == aged(local_files, local_keep_time)
              freeup == free_up(local_files, freeup_needed)
              delete_from_local == old \o freeup
              checked == delete_from_local # <<>>
              kept == IF checked THEN withhold(delete_from_local, check)
                      ELSE <<>>
          IN  archiveRun' =
                 <<[local_files |-> local_files, freeup_needed |-> freeup_needed,
                    aged |-> old, freeup |-> freeup,
                    delete_from_local |-> delete_from_local,
                    checked |-> checked, check |-> check,
                    moved |-> IF ignored THEN kept ELSE <<>>]>>
    /\ UNCHANGED <<indexVars, fuVars, histVars, supVars, schedVars, otherVars>>
    /\ UNCHANGED <<ignoreCalls, sameFileCall, folderRun, listenCall, laterVars>>

InitArchive == InitCommon

NextArchive == SyncWithArchive

SpecArchive == InitArchive /\ [][NextArchive]_vars

\* C24: every path of the final move list was in delete_from_local and is not
\* in the list of the files missing on the destination; when the check fails
\* nothing is moved.
Thm_C24 ==
    \A r \in DOMAIN archiveRun :
       /\ Range(archiveRun[r].moved)
             \subseteq Range(archiveRun[r].delete_from_local)
                          \ archiveRun[r].check.missing
       /\ archiveRun[r].check.failed => archiveRun[r].moved = <<>>

Wit_C24 ==
    /\ archiveRun # <<>>
    /\ ~ archiveRun[1].check.failed
    /\ archiveRun[1].delete_from_local = <<"a", "b">>
    /\ archiveRun[1].check.missing = {"a"}
    /\ archiveRun[1].moved = <<"b">>

\* The sizes of the first k files of a list, added up.
RECURSIVE SizeOfFirst(_, _, _)
SizeOfFirst(local_files, names, k) ==
    IF k = 0 THEN 0
    ELSE local_files[names[k]].size + SizeOfFirst(local_files, names, k - 1)

\* sel is the shortest prefix of the files in ascending (mtime, name) order
\* whose sizes add up to needed or more, or all the files if there is none.
ShortestPrefix(local_files, sel, needed) ==
    /\ Range(sel) \subseteq DOMAIN local_files
    /\ \A i \in DOMAIN sel : \A j \in DOMAIN sel :
          i < j => Before(local_files, sel[i], sel[j])
    /\ \A m \in Range(sel) : \A n \in DOMAIN local_files \ Range(sel) :
          Before(local_files, m, n)
    /\ \A k \in 0..(Len(sel) - 1) : SizeOfFirst(local_files, sel, k) < needed
    /\ \/ SizeOfFirst(local_files, sel, Len(sel)) >= needed
       \/ Range(sel) = DOMAIN local_files

\* C25: with freeup_needed > 0 the free-up pass selects exactly the shortest
\* prefix of the local files in ascending mtime order whose sizes reach
\* freeup_needed (all of them if they never do); when no file is old enough
\* for the age-based eviction delete_from_local is that prefix, each path once.
Thm_C25 ==
    \A r \in DOMAIN archiveRun :
       archiveRun[r].freeup_needed > 0 =>
          /\ ShortestPrefix(archiveRun[r].local_files, archiveRun[r].freeup,
                            archiveRun[r].freeup_needed)
          /\ archiveRun[r].aged = <<>>
                => archiveRun[r].delete_from_local = archiveRun[r].freeup

Wit_C25 ==
    /\ archiveRun # <<>>
    /\ archiveRun[1].freeup_needed = 250
    /\ archiveRun[1].local_files =
          [n \in {"a", "b", "c"} |->
              CASE n = "a" -> [time |-> 1, size |-> 100]
                [] n = "b" -> [time |-> 2, size |-> 200]
                [] n = "c" -> [time |-> 3, size |-> 300]]
    /\ archiveRun[1].aged = <<>>
    /\ archiveRun[1].delete_from_local = <<"a", "b">>
    /\ archiveRun[1].moved = <<"a", "b">>

\* C26: after a pass in which spawning the task failed, next_time of the task
\* has moved by retry_time and the scheduler is still running its loop.
Cex_C26 ==
    lastPick.kind = "spawn_failed"
        => /\ lastPick.new.next_time
                 = lastPick.old.next_time + TaskSpec[lastPick.task].retry_time
           /\ schedPc = "loop"

(***************************************************************************)
(* Specification SpecListen: one batch of the upload syncer on an index    *)
(* that holds rows of every kind the program writes: rows of local files   *)
(* (sync.py 119, archiver.py 181), rows of cloud-only files (sync.py 186), *)
(* rows of downloads that have not arrived yet (sync.py 259) and rows      *)
(* whose bytes a deleted event cleared (sync.py 112).  The batch may hold  *)
(* events of both sources, of another folder, of the types "file", "dir"   *)
(* and "directory", and two events of one path.                            *)
(***************************************************************************)
\* The file "dj" next to the folder "d".
PDJ == <<"d", "j">>

MaxListenRows == 2

MaxListenBatch == 2

ListenRows ==
    UNION {{Row(q, 1, 1, 0, None, FALSE),
            Row(q, 1, 1, 0, 0, FALSE),
            Row(q, 1, 1, 0, 0, TRUE),
            Row(q, None, None, None, 0, FALSE),
            Row(q, None, None, None, None, FALSE)} : q \in {PJ, PDJ}}

ListenIndexes == UNION {[1..n -> ListenRows] : n \in 0..MaxListenRows}

ListenEvents ==
    {Event("LocalChangeDetected", FolderId, "modified", PJ, "file"),
     Event("RemoteChangeDetected", FolderId, "modified", PJ, "file"),
     Event("LocalChangeDetected", FolderId, "modified", DirD, "directory"),
     Event("LocalChangeDetected", FolderId, "deleted", PJ, "file"),
     Event("RemoteChangeDetected", FolderId, "deleted", DirD, "dir"),
     Event("LocalChangeDetected", FolderId, "deleted", DirD, "directory"),
     Event("LocalChangeDetected", "other", "deleted", PJ, "file"),
     Event("RemoteChangeDetected", "other", "modified", PJ, "file")}

ListenBatches == UNION {[1..n -> ListenEvents] : n \in 1..MaxListenBatch}

\* UploadSyncer.listen, one pass of its loop (sync.py 52-130).
ListenBatch ==
    \E changes \in ListenBatches :
    \E fs \in [Range(PathsFor(changes, "copy")) -> LocalFiles(now)] :
       LET res == listen(index, changes, fs)
       IN  /\ listenCall = <<>>
           /\ index' = res.index
           /\ fuQueue' = fuQueue \o res.emitted
           /\ listenCall' = << [index |-> index, changes |-> changes, fs |-> fs,
                               copy |-> PathsFor(changes, "copy"),
                               delete_files |-> PathsFor(changes, "delete_files"),
                               delete_folders |-> PathsFor(changes, "delete_folders"),
                               crashed |-> res.crashed] >>
           /\ UNCHANGED <<envVars, ghostVars, histVars, supVars>>
           /\ UNCHANGED <<fuPc, collect_action, collect_files, uploaderQueue>>
           /\ UNCHANGED <<schedVars, otherVars>>
           /\ UNCHANGED <<ignoreCalls, sameFileCall, folderRun, archiveRun, laterVars>>

InitListen ==
    /\ index \in ListenIndexes
    /\ now = 0
    /\ ignores = {}
    /\ cloud_only_defaults = <<>>
    /\ syncPc = "idle"
    /\ erased = {}
    /\ seenMod = [q \in Paths |-> None]
    /\ softDeleted = {}
    /\ InitFolderUploader
    /\ InitNoWorkers
    /\ InitAux

NextListen == ListenBatch

SpecListen == InitListen /\ [][NextListen]_vars

(***************************************************************************)
(* C27.  For every event of a batch whose folder matches, a deleted file   *)
(* adds its path to delete_files, a deleted directory (type "dir" or       *)
(* "directory") adds its path to delete_folders, and a modified event of   *)
(* any type and source adds its path to copy; events of other folders      *)
(* contribute nothing.                                                     *)
(***************************************************************************)
\* The list the mapping above sends an event of the folder to.
MappedTo(ev) ==
    IF ev.action = "deleted" /\ ev.ftype = "file" THEN "delete_files"
    ELSE IF ev.action = "deleted" /\ ev.ftype \in {"dir", "directory"}
    THEN "delete_folders"
    ELSE IF ev.action = "modified" THEN "copy"
    ELSE "other"

MappedPaths(changes, action) ==
    LET evs == SelectSeq(changes, LAMBDA ev : /\ ev.folder = FolderId
                                              /\ MappedTo(ev) = action)
    IN  [k \in DOMAIN evs |-> evs[k].path]

Cex_C27 ==
    listenCall # <<>>
        => /\ listenCall[1].copy = MappedPaths(listenCall[1].changes, "copy")
           /\ listenCall[1].delete_files
                 = MappedPaths(listenCall[1].changes, "delete_files")
           /\ listenCall[1].delete_folders
                 = MappedPaths(listenCall[1].changes, "delete_folders")

(***************************************************************************)
(* C28.  When a batch without deleted events holds a modified event for a  *)
(* path whose row has no modTime and has an uploadedTime, it leaves a row  *)
(* of the path with the hash, modTime and size of the file on disk and     *)
(* with the uploadedTime and cloudOnly it had, and no copy message put on  *)
(* the folder uploader's queue names the path.                             *)
(***************************************************************************)
Cex_C28 ==
    (/\ listenCall # <<>>
     /\ ~ listenCall[1].crashed
     /\ listenCall[1].delete_files = <<>>
     /\ listenCall[1].delete_folders = <<>>)
        => \A i \in DOMAIN listenCall[1].index :
              LET r == listenCall[1].index[i]
              IN  (/\ r.modified = None
                   /\ r.uploaded # None
                   /\ r.path \in Range(listenCall[1].copy))
                  => /\ \E k \in DOMAIN index :
                          index[k] = Row(r.path, listenCall[1].fs[r.path].size,
                                         listenCall[1].fs[r.path].hash,
                                         listenCall[1].fs[r.path].modified,
                                         r.uploaded, r.cloud_only)
                     /\ \A m \in DOMAIN fuQueue :
                          fuQueue[m][2] = "copy" => r.path \notin Range(fuQueue[m][1])

\* Row path q is under folder p: it is p or starts with p and "/".
Under(p, q) == q = p \/ IsPrefix(p \o <<"/">>, q)

(***************************************************************************)
(* C29.  A batch of deleted events only (no path to copy) leaves the hash, *)
(* modTime and size of every row with cloudOnly = true as they were, when  *)
(* the row is named by a deleted file event and when it is under a deleted *)
(* folder.                                                                 *)
(***************************************************************************)
Cex_C29 ==
    (listenCall # <<>> /\ ~ listenCall[1].crashed /\ listenCall[1].copy = <<>>)
        => /\ Len(index) = Len(listenCall[1].index)
           /\ \A i \in DOMAIN index :
                 LET r == listenCall[1].index[i]
                 IN  (/\ r.cloud_only
                      /\ \/ r.path \in Range(listenCall[1].delete_files)
                         \/ \E p \in Range(listenCall[1].delete_folders) :
                               Under(p, r.path))
                     => index[i] = r

(***************************************************************************)
(* C30.  A batch of deleted folder events only clears the bytes of the     *)
(* rows under a deleted folder p that are not cloudOnly, a row being under *)
(* p when its path equals p or starts with p followed by "/"; a row whose  *)
(* path merely has p as a string prefix is left unchanged.                 *)
(***************************************************************************)
Cex_C30 ==
    (/\ listenCall # <<>>
     /\ ~ listenCall[1].crashed
     /\ listenCall[1].copy = <<>>
     /\ listenCall[1].delete_files = <<>>)
        => /\ Len(index) = Len(listenCall[1].index)
           /\ \A i \in DOMAIN index :
                 LET r == listenCall[1].index[i]
                 IN  IF \E p \in Range(listenCall[1].delete_folders) : Under(p, r.path)
                     THEN r.cloud_only
                          \/ index[i] = [r EXCEPT !.size = None, !.hash = None,
                                                  !.modified = None]
                     ELSE index[i] = r

(***************************************************************************)
(* Specification SpecPurge: the folder uploader performs one               *)
(* delete_folders message on an index that holds rows of every kind.       *)
(***************************************************************************)
DirE == <<"e">>

MaxPurgePaths == 2

PurgeFolders == {DirD, DirE}

PurgeMessages == UNION {[1..n -> PurgeFolders] : n \in 1..MaxPurgePaths}

\* The exit codes of rclone purge the specification draws.
PurgeExits == {0, 1}

\* FolderUploader.delete_folders: delete_folder for each path in turn.
\* exits[k] is the exit code rclone purge has for the k-th path; strict is
\* False, so a failed purge raises nothing.  The result lists, in order,
\* what was done for each path.
RECURSIVE delete_folders(_, _, _)
delete_folders(idx, paths, exits) ==
    IF paths = <<>> THEN <<>>
    ELSE << [path |-> paths[1],
             did |-> IF delete_folder_purges(idx, paths[1]) THEN "purge"
                     ELSE "skip",
             exit |-> IF delete_folder_purges(idx, paths[1]) THEN exits[1]
                      ELSE None] >>
         \o delete_folders(idx, Tail(paths), Tail(exits))

\* perform_action("delete_folders", paths), uploader.py 157-162 and 215-246.
DeleteFolders ==
    \E paths \in PurgeMessages :
    \E exits \in [DOMAIN paths -> PurgeExits] :
       /\ purgeRun = <<>>
       /\ purgeRun' = << [paths |-> paths,
                          steps |-> delete_folders(index, paths, exits)] >>
       /\ UNCHANGED <<index, envVars, ghostVars, fuVars, histVars, supVars>>
       /\ UNCHANGED <<schedVars, otherVars, earlierVars>>
       /\ UNCHANGED <<uploadRun, modifiers>>

NextPurge == DeleteFolders

SpecPurge == InitListen /\ [][NextPurge]_vars

(***************************************************************************)
(* C31.  The folder uploader never invokes purge on a folder p while the   *)
(* index holds a cloudOnly row under p (a row whose path is p or starts    *)
(* with p and "/"): for such a p the deletion is skipped, and every        *)
(* path of the delete_folders message, those after a skipped one too, is   *)
(* processed in turn.                                                      *)
(***************************************************************************)
CloudOnlyUnder(idx, p) ==
    \E i \in DOMAIN idx : idx[i].cloud_only /\ Under(p, idx[i].path)

Thm_C31 ==
    purgeRun # <<>>
        => /\ Len(purgeRun[1].steps) = Len(purgeRun[1].paths)
           /\ \A k \in DOMAIN purgeRun[1].steps :
                 /\ purgeRun[1].steps[k].path = purgeRun[1].paths[k]
                 /\ purgeRun[1].steps[k].did \in {"purge", "skip"}
                 /\ CloudOnlyUnder(index, purgeRun[1].paths[k])
                       => purgeRun[1].steps[k].did = "skip"

\* A cloud-only file under d: d is skipped, and e, next in the message, is
\* purged.
Wit_C31 ==
    /\ purgeRun # <<>>
    /\ purgeRun[1].paths = <<DirD, DirE>>
    /\ CloudOnlyUnder(index, DirD)
    /\ purgeRun[1].steps[1].did = "skip"
    /\ purgeRun[1].steps[2].did = "purge"

(***************************************************************************)
(* Specification SpecUpload: the global uploader (class Uploader) takes    *)
(* items from its queue inside retry_on_error(self.listen).  uploadRun     *)
(* lists, per item taken, the exit code of the storage tool and whether    *)
(* an exception left listen, which is what retry_on_error sees.            *)
(***************************************************************************)
MaxUploadItems == 2

UploadItems ==
    {<<files, action>> : files \in {<<>>, <<PJ>>, <<PJ, PX>>},
                         action \in UPLOAD_ACTIONS}

\* The exit codes of rclone copy / move the specification draws.
UploadExits == {0, 1}

\* Uploader.upload: no storage tool run for an empty list (lines 56-59);
\* run_command is strict, a non-zero exit raises CalledProcessError.
upload_raises(paths, exit) == paths # <<>> /\ exit # 0

\* Uploader.listen, lines 41-45: the bare except clause catches whatever
\* upload raises, logs it, and the loop takes the next item.
listen_raises(paths, exit) ==
    LET caught == upload_raises(paths, exit)
    IN  upload_raises(paths, exit) /\ ~ caught

\* One pass of the loop of Uploader.listen.
UploaderGet ==
    \E item \in UploadItems :
    \E exit \in UploadExits :
       /\ Len(uploadRun) < MaxUploadItems
       /\ \A k \in DOMAIN uploadRun : ~ uploadRun[k].surfaced
       /\ uploadRun' = Append(uploadRun,
                              [paths |-> item[1], action |-> item[2],
                               exit |-> IF item[1] = <<>> THEN None ELSE exit,
                               surfaced |-> listen_raises(item[1], exit)])
       /\ UNCHANGED <<indexVars, fuVars, histVars, supVars>>
       /\ UNCHANGED <<schedVars, otherVars, earlierVars>>
       /\ UNCHANGED <<purgeRun, modifiers>>

NextUpload == UploaderGet

SpecUpload == InitCommon /\ [][NextUpload]_vars

(***************************************************************************)
(* C32.  When the storage tool exits non-zero for an item of the global    *)
(* uploader's queue, the error leaves the loop of the worker and reaches   *)
(* its retry_on_error driver.                                              *)
(***************************************************************************)
Cex_C32 ==
    \A k \in DOMAIN uploadRun :
        (uploadRun[k].exit # None /\ uploadRun[k].exit # 0) => uploadRun[k].surfaced

(***************************************************************************)
(* C33.  The reconciler, for each path that the check lists as differing:  *)
(* the path is downloaded iff its indexed modTime is absent or the remote  *)
(* modTime is strictly later than the indexed one, and is uploaded         *)
(* otherwise; it is never in both lists and never in neither (the run     *)
(* does not stop before the lists are complete).                          *)
(***************************************************************************)
Cex_C33 ==
    syncPc = "refreshed" =>
       \A cat \in CheckResults(index) :
       \A remote \in RemoteInputs(index, cat, cloud_only_defaults, now) :
       \A copy_ok \in BOOLEAN :
          LET res == reconcile(index, now, cloud_only_defaults, cat, remote, copy_ok)
          IN  \A q \in Paths :
                 cat[q] = "differ" =>
                    LET local == known_files(index)[q].modified
                        later == local = None \/ remote[q].modified > local
                    IN  /\ ~ res.crashed
                        /\ q \in res.download <=> later
                        /\ q \in Range(res.upload) <=> ~ later

(***************************************************************************)
(* Specification SpecRace: the archiver calls extend_ignores(RaceA) and    *)
(* the reconciler calls discard_ignores(RaceB), each in its own process,   *)
(* on the ignore list of the same folder.  modify_ignores is two requests  *)
(* to the daemon, the GET of db/ignores and the POST of the whole new      *)
(* list; the requests of the two processes interleave.  modifiers lists    *)
(* the calls in the order of their GET.                                    *)
(***************************************************************************)
RaceA == {<<"a">>}
RaceB == {<<"b">>}

RaceCalls == {[proc |-> "archiver", op |-> "extend", arg |-> RaceA],
              [proc |-> "reconciler", op |-> "discard", arg |-> RaceB]}

RaceStored == SUBSET {<<"/", "a">>, <<"/", "b">>, <<"/", "c">>, <<"c">>}

\* What a request to the daemon leaves alone.
RaceFrame ==
    /\ UNCHANGED <<index, now, cloud_only_defaults, syncPc, ghostVars>>
    /\ UNCHANGED <<fuVars, histVars, supVars, schedVars, otherVars>>
    /\ UNCHANGED <<earlierVars, purgeRun, uploadRun>>

\* The lambdas of extend_ignores (line 508) and discard_ignores (line 516).
modify(op, arg, read) ==
    IF op = "extend" THEN read \cup {leading_slash(path) : path \in arg}
    ELSE read \ {leading_slash(path) : path \in arg}

Started(proc) == \E k \in DOMAIN modifiers : modifiers[k].proc = proc

\* Lines 437-456: the GET of the stored list; a RequestException, or no
\* answer with the key within the retries, makes modify_ignores return False.
ModifyGet ==
    \E call \in RaceCalls :
    \E got \in BOOLEAN :
       /\ ~ Started(call.proc)
       /\ modifiers' = Append(modifiers,
                              [proc |-> call.proc, op |-> call.op, arg |-> call.arg,
                               pc |-> IF got THEN "read" ELSE "done",
                               read |-> IF got THEN ignores ELSE {},
                               ok |-> FALSE])
       /\ UNCHANGED ignores
       /\ RaceFrame

\* Lines 458-492: the list computed from what the GET read is posted; the
\* answer is compared to it for the log only.  The POST may raise, applied
\* by the daemon or not, and modify_ignores then returns False.
ModifyPost ==
    \E k \in DOMAIN modifiers :
    \E out \in ModifyOutcomes(ignores, modify(modifiers[k].op, modifiers[k].arg,
                                              modifiers[k].read)) :
       /\ modifiers[k].pc = "read"
       /\ ignores' = out.stored
       /\ modifiers' = [modifiers EXCEPT ![k].pc = "done", ![k].ok = out.ok]
       /\ RaceFrame

InitRace ==
    /\ index = <<>>
    /\ now = 0
    /\ ignores \in RaceStored
    /\ cloud_only_defaults = <<>>
    /\ syncPc = "idle"
    /\ erased = {}
    /\ seenMod = [q \in Paths |-> None]
    /\ softDeleted = {}
    /\ InitFolderUploader
    /\ InitNoWorkers
    /\ InitAux

NextRace == ModifyGet \/ ModifyPost

SpecRace == InitRace /\ [][NextRace]_vars

(***************************************************************************)
(* C34.  When extend_ignores(A) and discard_ignores(B), A and B disjoint,  *)
(* run concurrently and both report success, the stored ignore list holds  *)
(* every path of A and no path of B afterwards.                            *)
(***************************************************************************)
Cex_C34 ==
    (/\ Len(modifiers) = 2
     /\ \A k \in DOMAIN modifiers : modifiers[k].pc = "done" /\ modifiers[k].ok)
        => /\ \A path \in RaceA : leading_slash(path) \in ignores
           /\ \A path \in RaceB : leading_slash(path) \notin ignores

(***************************************************************************)
(* C35.  When the hash of both entries is absent (a triple whose hash is   *)
(* None, or a pair), is_same_file returns true iff the sizes are equal and *)
(* the modTimes are both absent or differ by less than 10 microseconds:    *)
(* two absent hashes do not count as a hash match.                         *)
(***************************************************************************)
HashAbsent(file) == Len(file) = 2 \/ file[1] = None

ModTimeOf(file) == file[Len(file) - 1]

SizeOf(file) == file[Len(file)]

Cex_C35 ==
    (/\ sameFileCall # <<>>
     /\ HashAbsent(sameFileCall[1].file1)
     /\ HashAbsent(sameFileCall[1].file2))
        => LET t1 == ModTimeOf(sameFileCall[1].file1)
               t2 == ModTimeOf(sameFileCall[1].file2)
           IN  sameFileCall[1].result
                  <=> /\ SizeOf(sameFileCall[1].file1) = SizeOf(sameFileCall[1].file2)
                      /\ \/ t1 = None /\ t2 = None
                         \/ t1 # None /\ t2 # None /\ Abs(t1 - t2) < TenMicroseconds

(***************************************************************************)
(* C36.  Once the supervisor has handled a restart command for a           *)
(* registered worker (it has sent its reply), the reply is OK and the      *)
(* handle table tracks a process of that worker created for the command,   *)
(* whether the worker was alive or dead when the command arrived.          *)
(***************************************************************************)
Cex_C36 ==
    (restartCmd # <<>> /\ restartCmd[1].reply # "pending")
        => /\ restartCmd[1].reply = "OK"
           /\ supTable[restartCmd[1].worker] # None
           /\ supTable[restartCmd[1].worker] > restartCmd[1].handle
           /\ procs[supTable[restartCmd[1].worker]].name = restartCmd[1].worker

(***************************************************************************)
(* Specification SpecStream: the folder uploader under a producer that may *)
(* go on putting messages for ever.  The producer puts a message when the  *)
(* queue is empty, before or after the timed get of line 117 has timed     *)
(* out: a message put before the timeout is one that arrives less than     *)
(* 10 s after the previous one; it waits while the global uploader has an  *)
(* item to take.  The collection is tracked up to                          *)
(* MaxStreamCollect paths; paths received beyond that are taken from the   *)
(* queue and not tracked.  The folder uploader's and the global uploader's *)
(* steps are weakly fair (their processes run); the producer's are not.    *)
(***************************************************************************)
MaxStreamCollect == 3

\* A path that check_file rejects: it contains "_files/".
PF == <<"p", "_files", "/", "j">>

StreamPaths == {PJ, PX, PF}

StreamMessages ==
    {<<(<<q>>), action>> : q \in StreamPaths, action \in {"copy", "delete_files"}}

StreamFrame ==
    /\ UNCHANGED <<envVars, ghostVars, histVars, supVars, auxVars>>

\* A producer (upload syncer or reconciler) puts a message on the queue.
StreamPut ==
    /\ fuQueue = <<>>
    /\ uploaderQueue = <<>>
    /\ \E msg \in StreamMessages : fuQueue' = <<msg>>
    /\ UNCHANGED <<index, fuPc, collect_action, collect_files, uploaderQueue>>
    /\ StreamFrame

\* Line 117 returned a message (lines 119-138).
StreamTimedGet ==
    /\ IF /\ fuPc = "timed_get"
          /\ fuQueue # <<>>
          /\ Head(fuQueue)[2] = collect_action
          /\ Len(collect_files \o Head(fuQueue)[1]) > MaxStreamCollect
       THEN /\ fuQueue' = Tail(fuQueue)
            /\ UNCHANGED <<index, fuPc, collect_action, collect_files,
                           uploaderQueue>>
       ELSE FUTimedGet
    /\ StreamFrame

StreamTimeout == FUTimeout /\ StreamFrame

StreamBlockingGet == FUBlockingGet /\ StreamFrame

StreamUploader == UploaderListen

NextStream ==
    \/ StreamPut \/ StreamTimedGet \/ StreamTimeout \/ StreamBlockingGet
    \/ StreamUploader

SpecStream ==
    /\ InitCommon
    /\ [][NextStream]_vars
    /\ WF_vars(StreamTimedGet)
    /\ WF_vars(StreamTimeout)
    /\ WF_vars(StreamBlockingGet)
    /\ WF_vars(StreamUploader)

(***************************************************************************)
(* C37.  Every uploadable path that the folder uploader has received in a  *)
(* copy message is eventually put on the global uploader's queue, whether  *)
(* the input goes quiet or further copy messages keep arriving before the  *)
(* timed get times out; a path that contains "_files/" or ends in "_files" *)
(* is never put on the global queue.                                       *)
(***************************************************************************)
Collected(q) ==
    /\ fuPc = "timed_get"
    /\ collect_action = "copy"
    /\ q \in Range(collect_files)

Forwarded(q) == \E k \in DOMAIN uploaderQueue : q \in Range(uploaderQueue[k][1])

Cex_C37 ==
    /\ \A q \in StreamPaths : check_file(q) => (Collected(q) ~> Forwarded(q))
    /\ [] (\A q \in StreamPaths : ~ check_file(q) => ~ Forwarded(q))

(***************************************************************************)
(* C38.  When get_file_details fails for a modified path of a batch (the   *)
(* file is no longer on disk), the delete_files and delete_folders         *)
(* messages of the batch are still put on the folder uploader's queue and  *)
(* the rows they name, other than cloud-only rows and rows of a path to    *)
(* copy, have their bytes cleared.                                         *)
(***************************************************************************)
DetailsFailed(call) == \E q \in Range(call.copy) : call.fs[q] = NoFile

Cex_C38 ==
    (listenCall # <<>> /\ DetailsFailed(listenCall[1]))
        => LET call == listenCall[1]
           IN  /\ call.delete_files # <<>>
                    => <<call.delete_files, "delete_files">> \in Range(fuQueue)
               /\ call.delete_folders # <<>>
                    => <<call.delete_folders, "delete_folders">> \in Range(fuQueue)
               /\ \A i \in DOMAIN index :
                     (/\ ~ index[i].cloud_only
                      /\ index[i].path \notin Range(call.copy)
                      /\ \/ index[i].path \in Range(call.delete_files)
                         \/ \E p \in Range(call.delete_folders) :
                               Under(p, index[i].path))
                     => /\ index[i].size = None
                        /\ index[i].hash = None
                        /\ index[i].modified = None

(***************************************************************************)
(* C39.  A run of sync_from_cloud puts no delete_files message that names  *)
(* a path whose deleted event was not processed; in particular a path that *)
(* has a row recorded for download (uploaded set, no size) and is found    *)
(* remotely added again by a later run is not put in a delete_files        *)
(* message.                                                                *)
(***************************************************************************)
DownloadRow(row) ==
    /\ row.uploaded # None
    /\ row.size = None
    /\ row.hash = None
    /\ row.modified = None
    /\ ~ row.cloud_only

PutsBy(q, q2) == SubSeq(q2, Len(q) + 1, Len(q2))

Thm_C39 ==
    [][(syncPc = "refreshed" /\ syncPc' = "idle")
          => \A k \in DOMAIN PutsBy(fuQueue, fuQueue') :
                PutsBy(fuQueue, fuQueue')[k][2] = "delete_files"
                   => Range(PutsBy(fuQueue, fuQueue')[k][1]) \subseteq softDeleted]_vars

\* Two runs have recorded d/j for download: the second found the row of
\* the first and did not ask for the path to be deleted.
Wit_C39 ==
    /\ syncPc = "idle"
    /\ fuQueue = <<>>
    /\ PJ \notin softDeleted
    /\ \E i \in DOMAIN index : \E j \in DOMAIN index :
          /\ i < j
          /\ index[i].path = PJ /\ DownloadRow(index[i])
          /\ index[j].path = PJ /\ DownloadRow(index[j])
          /\ index[i].uploaded < index[j].uploaded

(***************************************************************************)
(* Specification SpecTasks: the scheduler on a TASKS list whose tasks are  *)
(* constructed with either value of the argument enabled of                *)
(* TimedTask.__init__ (line 38, stored by line 54).  The loop of           *)
(* start_main_loop never blocks for ever: its passes are weakly fair.      *)
(***************************************************************************)
InitTasks ==
    /\ InitIndexState
    /\ InitFolderUploader
    /\ InitNoWorkers
    /\ InitNoRetry
    /\ InitNoListener
    /\ InitNoCalls
    /\ \E enabled \in [TaskNames -> BOOLEAN] :
          tasks = [t \in TaskNames |->
                      [NoTask EXCEPT !.next_time = get_next_scheduled(t, 0, 0),
                                     !.enabled = enabled[t]]]
    /\ schedPc = "loop"
    /\ lastPick = NoPick

SpecTasks == InitTasks /\ [][NextSched]_vars /\ WF_vars(SchedPass)

(***************************************************************************)
(* C40.  When a pass of the scheduler picks a task that is not enabled     *)
(* while some task is enabled, a later pass is made on an enabled task:    *)
(* the task that is not enabled is not picked again for ever.              *)
(***************************************************************************)
NotEnabledPick == lastPick.kind = "disabled"

SomeEnabled == \E t \in TaskNames : tasks[t].enabled

Cex_C40 == (NotEnabledPick /\ SomeEnabled) ~> EnabledPick(lastPick)

====
